---- MODULE Spec2Model ----
(***************************************************************************)
(* Inventory ledger of dashboard_fabrica_pinceles.py: the seven CSV tables *)
(* (catalogo, stock_mp, movimientos, productos, produccion, pedidos,       *)
(* despachos) and the handlers that rewrite them.  One action per button    *)
(* handler; a handler runs to completion (Streamlit reruns the script once  *)
(* per click), so each action is the whole handler.                         *)
(*                                                                         *)
(* Strings.  A text that the code cuts with split(" - ") is a sequence of   *)
(* atoms, one per piece: "15 - virola 1" is <<"15", "virola 1">>, "15" is   *)
(* <<"15">> and the empty string is <<"">>.  Texts that are never cut       *)
(* (tipo, tipo_producto, proveedor, estado) are plain strings.              *)
(***************************************************************************)
EXTENDS Integers, Sequences, FiniteSets, TLC

\* ---------------------------------------------------------------- bounds
\* quantities typed into the number inputs range over 1..MaxCant
MaxCant == 2
\* handler runs that write a file, per specification
OpsLedger == 3
OpsProduccion == 3
OpsDespacho == 4
OpsFechas == 3
OpsPedidos == 4
OpsStock == 3
OpsRecetas == 3
OpsCatalogo == 3
OpsTerminados == 3
OpsSesiones == 3
OpsRespaldo == 3
OpsFaltante == 3
OpsOrden == 3
OpsAcuerdo == 3
OpsBOM == 3
OpsAjustes == 3
OpsEdicion == 3
\* ticks of the clock in a day
Dia == 3

\* ---------------------------------------------------------------- strings
Vacio == <<"">>

\* str.strip() on an atom: the padded atoms of the model and their cores
StripAtom(a) ==
    IF a = "15 " THEN "15"
    ELSE IF a = " Mango" THEN "Mango"
    ELSE a

\* str.strip() on a text: leading blanks of the first piece and trailing
\* blanks of the last piece (the padded atoms of the model carry one blank)
Strip(s) == [i \in 1..Len(s) |-> IF i = 1 \/ i = Len(s) THEN StripAtom(s[i]) ELSE s[i]]

\* f"{a} - {b}"
Unir(a, b) == a \o b

\* s.split(" - "): the list of the pieces, each a text of its own
Split(s) == [i \in 1..Len(s) |-> <<s[i]>>]

\* truth value of a text or of a plain string
NoVacio(s) == s # Vacio

\* ---------------------------------------------------------------- tables
NaT == 0

\* the elements of a finite set of integers in ascending order: the order in
\* which pandas lists the row labels a boolean mask selects
RECURSIVE Ascendente(_)
Ascendente(S) ==
    IF S = {} THEN <<>>
    ELSE LET m == CHOOSE x \in S : \A y \in S : x <= y
         IN  <<m>> \o Ascendente(S \ {m})

Abs(n) == IF n < 0 THEN -n ELSE n

\* ---------------------------------------------------------------- catalog
\* build_default_catalog, cut to one medida, one virola, one colour and one
\* chapita of pinceleta
Medidas == <<"15">>
Virolas == <<"virola 1">>
Colores == <<"blanco">>
ChapitasPinceleta == <<"40">>

FilaCatalogo(t, v, m) == [tipo |-> t, variante |-> v, stock_minimo |-> m]

build_default_catalog ==
    [i \in 1..(Len(Medidas) * Len(Virolas)) |->
        FilaCatalogo("Mango",
                     Unir(<<Medidas[((i - 1) \div Len(Virolas)) + 1]>>,
                          <<Virolas[((i - 1) % Len(Virolas)) + 1]>>), 50)]
    \o [i \in 1..Len(Medidas) |-> FilaCatalogo("Cerda", <<Medidas[i]>>, 50)]
    \o [i \in 1..Len(Medidas) |-> FilaCatalogo("Chapita", <<Medidas[i]>>, 50)]
    \o [i \in 1..Len(Colores) |-> FilaCatalogo("Manguito pinceleta", <<Colores[i]>>, 30)]
    \o [i \in 1..Len(ChapitasPinceleta) |->
            FilaCatalogo("Chapita pinceleta", <<ChapitasPinceleta[i]>>, 30)]
    \o <<FilaCatalogo("Cerda pinceleta", <<"estándar">>, 30)>>

\* ---------------------------------------------------------------- state
VARIABLES
    catalogo,     \* materials_catalog.csv: rows [tipo, variante, stock_minimo]
    stock_mp,     \* stock_actual.csv: rows [tipo, variante, stock_minimo,
                  \*   stock_actual, ultima_entrada, proveedor_mas_frecuente]
    movimientos,  \* stock_movimientos.csv: rows [fecha, tipo_movimiento, tipo,
                  \*   variante, cantidad, proveedor]
    productos,    \* stock_productos.csv: rows [tipo_producto, variante_producto,
                  \*   stock_actual]
    produccion,   \* produccion.csv: rows [fecha, tipo_producto, cantidad, nota,
                  \*   variante_producto]
    pedidos,      \* pedidos.csv: rows [id, tipo_producto, variante_producto,
                  \*   cantidad, estado]
    despachos,    \* despachos.csv: rows [id_despacho, fecha, pedido_id,
                  \*   tipo_producto, variante_producto, cantidad]
    now,          \* datetime.now(), in ticks
    ops,          \* number of handler runs that wrote a file so far
    last,         \* the handler that ran last, its inputs and what it reported
    pre,          \* the tables as they were when that handler started
    tx            \* per operator, the production run its session is in the middle of

tablas == <<catalogo, stock_mp, movimientos, productos, produccion, pedidos, despachos>>
vars == <<catalogo, stock_mp, movimientos, productos, produccion, pedidos, despachos,
          now, ops, last, pre, tx>>

Tablas == [catalogo |-> catalogo, stock_mp |-> stock_mp, movimientos |-> movimientos,
           productos |-> productos, produccion |-> produccion, pedidos |-> pedidos,
           despachos |-> despachos]

\* ---------------------------------------------------------------- files
\* read_df on stock_actual.csv: tipo and variante are stripped
ReadStock(file) ==
    [i \in 1..Len(file) |->
        [file[i] EXCEPT !.tipo = StripAtom(@), !.variante = Strip(@)]]

\* an empty CSV field is read back as NaN, and astype(str) turns NaN into "nan"
NanStr(s) == IF s = "" THEN "nan" ELSE s

\* read_df on stock_movimientos.csv: the text columns go through
\* astype(str).str.strip()
ReadMov(file) ==
    [i \in 1..Len(file) |->
        [file[i] EXCEPT !.tipo = StripAtom(@), !.variante = Strip(@),
                        !.proveedor = NanStr(StripAtom(@))]]

\* init_files: stock_actual.csv is the catalog with stock_actual 0
StockInicial(cat) ==
    [i \in 1..Len(cat) |->
        [tipo |-> cat[i].tipo, variante |-> cat[i].variante,
         stock_minimo |-> cat[i].stock_minimo, stock_actual |-> 0,
         ultima_entrada |-> NaT, proveedor_mas_frecuente |-> ""]]

\* ---------------------------------------------------------------- ledger
\* add_movimiento: read the log, append one row, save
add_movimiento(file, fecha, tipo_mov, tipo, variante, cantidad, proveedor) ==
    Append(ReadMov(file),
           [fecha |-> fecha, tipo_movimiento |-> tipo_mov, tipo |-> tipo,
            variante |-> variante, cantidad |-> cantidad, proveedor |-> proveedor])

\* mask = (stock["tipo"] == tipo) & (stock["variante"] == variante)
Mask(stock, tipo, variante) ==
    {i \in 1..Len(stock) : stock[i].tipo = tipo /\ stock[i].variante = variante}

\* value_counts() of a column: the values by descending count, a value seen
\* earlier before one seen later with the same count; .index[0] is the first
ValueCountsFirst(col) ==
    LET cuenta(p) == Cardinality({i \in 1..Len(col) : col[i] = p})
        primera(p) == CHOOSE i \in 1..Len(col) :
                          col[i] = p /\ \A j \in 1..(i - 1) : col[j] # p
        vals == {col[i] : i \in 1..Len(col)}
    IN  CHOOSE p \in vals :
            \A q \in vals : cuenta(p) > cuenta(q)
                             \/ (cuenta(p) = cuenta(q) /\ primera(p) <= primera(q))

\* what a handler shows when it has no quantity to report (None)
NoVal == -1

\* the check of a single match letting several rows through: the first is used
NoUnica_SoloVacia(n) == n = 0

\* if len(idxs) != 1
NoUnica(n) == n # 1

\* the check dropped: any result is stored
StockNegativo_Nunca(nuevo_stock) == FALSE

\* if nuevo_stock < 0: no permitir negativo
StockNegativo(nuevo_stock) == nuevo_stock < 0

\* the new line given the minimum the default catalog gives a brush material
FilaNueva_MinimoDeCatalogo(tipo, variante, proveedor) ==
    [tipo |-> tipo, variante |-> variante, stock_minimo |-> 50,
     stock_actual |-> 0, ultima_entrada |-> NaT, proveedor_mas_frecuente |-> proveedor]

\* the line actualizar_stock adds when no row matches: minimum 0, quantity 0
FilaNueva(tipo, variante, proveedor) ==
    [tipo |-> tipo, variante |-> variante, stock_minimo |-> 0,
     stock_actual |-> 0, ultima_entrada |-> NaT, proveedor_mas_frecuente |-> proveedor]

\* actualizar_stock: [ok, val, file], file being stock_actual.csv afterwards
actualizar_stock(file, movs, tipo, variante, delta, proveedor, es_entrada, t) ==
    LET leido == ReadStock(file)
        nuevo == FilaNueva(tipo, variante, proveedor)
        stock == IF Mask(leido, tipo, variante) = {} THEN Append(leido, nuevo) ELSE leido
        idxs == Ascendente(Mask(stock, tipo, variante))
    IN  IF NoUnica(Len(idxs))
        THEN [ok |-> FALSE, val |-> NoVal, file |-> file]
        ELSE
        LET idx == idxs[1]
            nuevo_stock == stock[idx].stock_actual + delta
            mov == ReadMov(movs)
            sel == Ascendente({i \in 1..Len(mov) :
                       /\ mov[i].tipo = tipo /\ mov[i].variante = variante
                       /\ mov[i].tipo_movimiento = "ENTRADA"})
            provs == [k \in 1..Len(sel) |-> mov[sel[k]].proveedor]
            fila1 == [stock[idx] EXCEPT !.stock_actual = nuevo_stock]
            fila2 == IF es_entrada THEN [fila1 EXCEPT !.ultima_entrada = t] ELSE fila1
            fila3 == IF es_entrada /\ proveedor # "" /\ provs # <<>>
                     THEN [fila2 EXCEPT !.proveedor_mas_frecuente = ValueCountsFirst(provs)]
                     ELSE fila2
        IN  IF StockNegativo(nuevo_stock)
            THEN [ok |-> FALSE, val |-> stock[idx].stock_actual, file |-> file]
            ELSE [ok |-> TRUE, val |-> nuevo_stock,
                  file |-> [stock EXCEPT ![idx] = fila3]]

\* ---------------------------------------------------------------- inputs
Proveedores == {"", "ACME"}
Cantidades == 1..MaxCant

\* what a handler leaves for the page to show
Ult(op, res, tipo, variante, cant) ==
    [op |-> op, res |-> res, tipo |-> tipo, variante |-> variante, cant |-> cant,
     modo |-> "", pid |-> 0, auto |-> FALSE, items |-> <<>>, insuf |-> <<>>,
     hechos |-> 0, val |-> NoVal, prov |-> "", dia |-> 0, quien |-> "",
     manual |-> <<>>]

\* the operators at work, each in a browser session of their own
Operadores == {"op1", "op2"}

\* a session with no production run under way
TxLibre ==
    [pc |-> "libre", tipo |-> "", variante |-> Vacio, cant |-> 0, items |-> <<>>,
     hechos |-> 0, inicio |-> <<>>]

Init ==
    /\ catalogo = build_default_catalog
    /\ stock_mp = StockInicial(build_default_catalog)
    /\ movimientos = <<>>
    /\ productos = <<>>
    /\ produccion = <<>>
    /\ pedidos = <<>>
    /\ despachos = <<>>
    /\ now = 1
    /\ ops = 0
    /\ last = Ult("init", "ok", "", Vacio, 0)
    /\ pre = Tablas
    /\ tx = [o \in Operadores |-> TxLibre]

\* ---------------------------------------------------------------- entries
\* the variants the entry form offers for a type, the blank choice included
VariantesEntrada(tipo) ==
    {Vacio} \cup
    (IF tipo = "Mango"
        THEN {Unir(<<Medidas[i]>>, <<Virolas[j]>>) :
                  i \in 1..Len(Medidas), j \in 1..Len(Virolas)}
     ELSE IF tipo \in {"Cerda", "Chapita"}
        THEN {<<Medidas[i]>> : i \in 1..Len(Medidas)}
     ELSE IF tipo = "Manguito pinceleta"
        THEN {<<Colores[i]>> : i \in 1..Len(Colores)}
     ELSE IF tipo = "Chapita pinceleta"
        THEN {<<ChapitasPinceleta[i]>> : i \in 1..Len(ChapitasPinceleta)}
     ELSE IF tipo = "Cerda pinceleta"
        THEN {<<"estándar">>}
     ELSE {catalogo[i].variante : i \in {k \in 1..Len(catalogo) : catalogo[k].tipo = tipo}})

\* the dates the operator picks in the date input, in days from today
Hoy == 0
Fechas == {-1, Hoy, 1}

\* the day turned round: the entry is dated the day before the chosen one
Combinar_DiaAntes(fecha, t) == t + (fecha - 1) * Dia

\* datetime.combine(fecha, datetime.now().time()): the chosen date with the
\* time of day of the clock
Combinar(fecha, t) == t + fecha * Dia

\* the check dropped: a material the catalog lacks is entered all the same
FueraDeCatalogo_Nunca(count_cat) == FALSE

\* if count_cat == 0
FueraDeCatalogo(count_cat) == count_cat = 0

\* page_entradas, "Registrar entrada"
Entrada(tipo, variante, cantidad, proveedor, fecha) ==
    LET tipo_s == StripAtom(tipo)
        variante_s == Strip(variante)
        count_cat == Cardinality({i \in 1..Len(catalogo) :
                         /\ StripAtom(catalogo[i].tipo) = tipo_s
                         /\ Strip(catalogo[i].variante) = variante_s})
        r == actualizar_stock(stock_mp, movimientos, tipo_s, variante_s, cantidad,
                              proveedor, TRUE, now)
        res == IF ~NoVacio(variante_s) THEN "sin_variante"
               ELSE IF FueraDeCatalogo(count_cat) THEN "no_catalogo"
               ELSE IF count_cat > 1 THEN "catalogo_duplicado"
               ELSE IF r.ok THEN "ok" ELSE "fallo"
    IN  /\ pre' = Tablas
        /\ UNCHANGED tx
        /\ last' = [Ult("entrada", res, tipo_s, variante_s, cantidad)
                        EXCEPT !.val = IF res \in {"ok", "fallo"} THEN r.val ELSE NoVal,
                               !.prov = proveedor, !.dia = fecha]
        /\ IF res = "ok"
           THEN /\ stock_mp' = r.file
                /\ movimientos' = add_movimiento(movimientos, Combinar(fecha, now),
                                                 "ENTRADA", tipo_s,
                                                 variante_s, cantidad, proveedor)
                /\ now' = now + 1
                /\ ops' = ops + 1
           ELSE UNCHANGED <<stock_mp, movimientos, now, ops>>
        /\ UNCHANGED <<catalogo, productos, produccion, pedidos, despachos>>

\* every adjustment logged as AJUSTE, the ones that take stock out too
TipoDeAjuste_Siempre(delta) == "AJUSTE"

\* mov_tipo = "AJUSTE" if delta >= 0 else "SALIDA"
TipoDeAjuste(delta) == IF delta >= 0 THEN "AJUSTE" ELSE "SALIDA"

\* editable_stock_table, "Aplicar ajuste"
Ajuste(tipo, variante, delta) ==
    LET r == actualizar_stock(stock_mp, movimientos, tipo, variante, delta, "", FALSE, now)
        mov_tipo == TipoDeAjuste(delta)
    IN  /\ pre' = Tablas
        /\ UNCHANGED tx
        /\ last' = [Ult("ajuste", IF r.ok THEN "ok" ELSE "fallo", tipo, variante, delta)
                        EXCEPT !.val = r.val]
        /\ IF r.ok
           THEN /\ stock_mp' = r.file
                /\ movimientos' = add_movimiento(movimientos, now, mov_tipo, tipo,
                                                 variante, Abs(delta), "")
                /\ now' = now + 1
                /\ ops' = ops + 1
           ELSE UNCHANGED <<stock_mp, movimientos, now, ops>>
        /\ UNCHANGED <<catalogo, productos, produccion, pedidos, despachos>>

\* ---------------------------------------------------------------- cells
\* A cell of a text column that pandas read as NaN (an empty field, or the
\* text "nan") holds no text at all.
NAN == <<>>

\* pd.read_csv on a text cell
LeerCelda(c) == IF c = Vacio \/ c = <<"nan">> THEN NAN ELSE c

\* to_csv on a text cell: NaN is written as the empty field
GuardarCelda(c) == IF c = NAN THEN Vacio ELSE c

\* str(c), astype(str)
Str(c) == IF c = NAN THEN <<"nan">> ELSE c

\* read_df / save_df on stock_productos.csv
ReadProductos(file) ==
    [i \in 1..Len(file) |-> [file[i] EXCEPT !.variante_producto = LeerCelda(@)]]

SaveProductos(df) ==
    [i \in 1..Len(df) |-> [df[i] EXCEPT !.variante_producto = GuardarCelda(@)]]

\* read_df / save_df on pedidos.csv
ReadPedidos(file) ==
    [i \in 1..Len(file) |-> [file[i] EXCEPT !.variante_producto = LeerCelda(@)]]

SavePedidos(df) ==
    [i \in 1..Len(df) |-> [df[i] EXCEPT !.variante_producto = GuardarCelda(@)]]

\* ---------------------------------------------------------------- uploads
FilaStock(t, v, n) ==
    [tipo |-> t, variante |-> v, stock_minimo |-> 0, stock_actual |-> n,
     ultima_entrada |-> NaT, proveedor_mas_frecuente |-> ""]

\* the files an operator uploads as stock of raw materials
ArchivosStock ==
    { <<FilaStock("Mango", <<"15", "virola 1">>, MaxCant),
        FilaStock("Chapita", <<"15">>, MaxCant)>>,
      <<FilaStock("Mango", <<"15", "virola 1">>, MaxCant),
        FilaStock("Chapita", <<"15">>, 1),
        [FilaStock("Chapita", <<"15 ">>, MaxCant) EXCEPT !.stock_minimo = 5]>>,
      <<FilaStock("Mango", <<"15", "virola 1">>, -1),
        FilaStock("Chapita", <<"15">>, 1)>> }

\* an upload that loses the quantities: every line comes in at 0
LimpiarStock_Cero(df) == [i \in 1..Len(df) |-> [df[i] EXCEPT !.stock_actual = 0]]

\* df["stock_minimo"].fillna(0).astype(int), df["stock_actual"].fillna(0).astype(int):
\* the integers of the file are kept as they are
LimpiarStock(df) == df

\* page_import_export, "Importar Stock Materias Primas"
ImportarStock(df) ==
    LET limpio == LimpiarStock(df)
        negativo == \E i \in 1..Len(limpio) : limpio[i].stock_actual < 0
    IN  /\ pre' = Tablas
        /\ UNCHANGED tx
        /\ last' = [Ult("importar_stock", IF negativo THEN "negativo" ELSE "ok",
                        "", Vacio, 0) EXCEPT !.items = df]
        /\ stock_mp' = IF negativo THEN stock_mp ELSE limpio
        /\ ops' = IF negativo THEN ops ELSE ops + 1
        /\ UNCHANGED <<catalogo, movimientos, productos, produccion, pedidos, despachos, now>>

FilaProducto(t, v, n) == [tipo_producto |-> t, variante_producto |-> v, stock_actual |-> n]

\* the files an operator uploads as stock of finished goods
ArchivosProductos ==
    { <<FilaProducto("pincel normal", <<"15", "virola 1">>, MaxCant + 1),
        FilaProducto("rodillo", Vacio, 1)>>,
      <<FilaProducto("pincel normal", <<"15", "virola 1">>, -1)>> }

\* page_import_export, "Importar Stock de Productos"
ImportarProductos(df) ==
    LET limpio == [i \in 1..Len(df) |->
                      [df[i] EXCEPT !.tipo_producto = StripAtom(@),
                                    !.variante_producto = Strip(Str(LeerCelda(@)))]]
        negativo == \E i \in 1..Len(df) : df[i].stock_actual < 0
    IN  /\ pre' = Tablas
        /\ UNCHANGED tx
        /\ last' = [Ult("importar_productos", IF negativo THEN "negativo" ELSE "ok",
                        "", Vacio, 0) EXCEPT !.items = df]
        /\ productos' = IF negativo THEN productos ELSE limpio
        /\ ops' = IF negativo THEN ops ELSE ops + 1
        /\ UNCHANGED <<catalogo, stock_mp, movimientos, produccion, pedidos, despachos, now>>

\* ---------------------------------------------------------------- export
\* page_import_export, "Descargar CSV - Stock Materias Primas":
\* read_df(stock_mp).to_csv()
ExportarStock(file) == ReadStock(file)

\* page_import_export, "Descargar CSV - Stock Productos": read_df(productos).to_csv()
ExportarProductos(file) == SaveProductos(ReadProductos(file))

\* the stock file downloaded and uploaded again
ReimportarStock == ImportarStock(ExportarStock(stock_mp))

\* the finished-goods file downloaded and uploaded again
ReimportarProductos == ImportarProductos(ExportarProductos(productos))

\* ---------------------------------------------------------------- recipes
Linea(t, v, c) == [tipo |-> t, variante |-> v, cant |-> c]

\* the recipe with the ferrule left on the size: Chapita asks for the whole variant
compute_mp_needs_SinCortar(tipo_prod, variante_producto, cantidad) ==
    IF tipo_prod = "pincel normal" /\ NoVacio(variante_producto)
    THEN <<Linea("Mango", variante_producto, cantidad),
           Linea("Chapita", variante_producto, cantidad)>>
    ELSE IF tipo_prod = "pinceleta" /\ NoVacio(variante_producto)
    THEN <<Linea("Manguito pinceleta", <<variante_producto[1]>>, cantidad),
           Linea("Chapita pinceleta", <<variante_producto[Len(variante_producto)]>>, cantidad),
           Linea("Cerda pinceleta", <<"estándar">>, cantidad)>>
    ELSE <<>>

\* compute_mp_needs
compute_mp_needs(tipo_prod, variante_producto, cantidad) ==
    IF tipo_prod = "pincel normal" /\ NoVacio(variante_producto)
    THEN LET medida_sel == Split(variante_producto)[1]
         IN  <<Linea("Mango", variante_producto, cantidad),
               Linea("Chapita", medida_sel, cantidad)>>
    ELSE IF tipo_prod = "pinceleta" /\ NoVacio(variante_producto)
    THEN LET partes == Split(variante_producto)
             color_sel == IF Len(partes) = 2 THEN partes[1] ELSE Vacio
             chapita_sel == IF Len(partes) = 2 THEN partes[2] ELSE Vacio
         IN  IF NoVacio(color_sel) /\ NoVacio(chapita_sel)
             THEN <<Linea("Manguito pinceleta", color_sel, cantidad),
                    Linea("Chapita pinceleta", chapita_sel, cantidad),
                    Linea("Cerda pinceleta", <<"estándar">>, cantidad)>>
             ELSE <<>>
    ELSE <<>>

\* the page's list for a pinceleta without the bristle
auto_items_SinCerda(tipo_prod, variante_producto, cant, auto_desc) ==
    IF tipo_prod = "pincel normal" /\ auto_desc /\ NoVacio(variante_producto)
    THEN <<Linea("Mango", variante_producto, cant),
           Linea("Chapita", Split(variante_producto)[1], cant)>>
    ELSE IF tipo_prod = "pinceleta" /\ auto_desc /\ NoVacio(variante_producto)
    THEN <<Linea("Manguito pinceleta", Split(variante_producto)[1], cant),
           Linea("Chapita pinceleta", Split(variante_producto)[2], cant)>>
    ELSE <<>>

\* the consumption the production page builds itself (step 2 of its handler);
\* its variants always come from two select boxes, so the split has two pieces
auto_items(tipo_prod, variante_producto, cant, auto_desc) ==
    IF tipo_prod = "pincel normal" /\ auto_desc /\ NoVacio(variante_producto)
    THEN <<Linea("Mango", variante_producto, cant),
           Linea("Chapita", Split(variante_producto)[1], cant)>>
    ELSE IF tipo_prod = "pinceleta" /\ auto_desc /\ NoVacio(variante_producto)
    THEN <<Linea("Manguito pinceleta", Split(variante_producto)[1], cant),
           Linea("Chapita pinceleta", Split(variante_producto)[2], cant),
           Linea("Cerda pinceleta", <<"estándar">>, cant)>>
    ELSE <<>>

\* manual_validos = [(t, v, c) for (t, v, c) in items if t and v and c > 0]
RECURSIVE manual_validos(_)
manual_validos(items) ==
    IF items = <<>> THEN <<>>
    ELSE (IF Head(items).tipo # "" /\ NoVacio(Head(items).variante) /\ Head(items).cant > 0
          THEN <<Head(items)>> ELSE <<>>) \o manual_validos(Tail(items))

\* ---------------------------------------------------------------- produce
\* the rows of the stock table a consumption line matches in the pre-check
MaskLinea(stock_df, it) ==
    {i \in 1..Len(stock_df) :
        /\ StripAtom(stock_df[i].tipo) = StripAtom(it.tipo)
        /\ Strip(stock_df[i].variante) = Strip(it.variante)}

\* the comparison made strict the wrong way: a line that uses up the stock is short
Falta_Igual(disp, req) == disp <= req

\* if disp < int(c)
Falta(disp, req) == disp < req

\* the pre-check giving up at the first line that is short
RECURSIVE Insuf_Primera(_, _)
Insuf_Primera(stock_df, items) ==
    IF items = <<>> THEN <<>>
    ELSE LET it == Head(items)
             mask == {i \in 1..Len(stock_df) :
                         /\ StripAtom(stock_df[i].tipo) = StripAtom(it.tipo)
                         /\ Strip(stock_df[i].variante) = Strip(it.variante)}
             disp == stock_df[Ascendente(mask)[1]].stock_actual
         IN  IF mask = {} \/ Falta(disp, it.cant)
             THEN <<[tipo |-> it.tipo, variante |-> it.variante,
                     disp |-> IF mask = {} THEN NoVal ELSE disp, req |-> it.cant]>>
             ELSE Insuf_Primera(stock_df, Tail(items))

\* step 3, the pre-check: one report per line that is short, in line order
RECURSIVE Insuf(_, _)
Insuf(stock_df, items) ==
    IF items = <<>> THEN <<>>
    ELSE LET it == Head(items)
             mask == MaskLinea(stock_df, it)
             disp == stock_df[Ascendente(mask)[1]].stock_actual
             rep == IF mask = {}
                    THEN <<[tipo |-> it.tipo, variante |-> it.variante,
                            disp |-> NoVal, req |-> it.cant]>>
                    ELSE IF Falta(disp, it.cant)
                    THEN <<[tipo |-> it.tipo, variante |-> it.variante,
                            disp |-> disp, req |-> it.cant]>>
                    ELSE <<>>
         IN  rep \o Insuf(stock_df, Tail(items))

\* step 4, the debit pass: actualizar_stock then add_movimiento per line, and
\* out at the first debit that fails
RECURSIVE Descontar(_, _, _, _)
Descontar(file, movs, items, t) ==
    IF items = <<>> THEN [ok |-> TRUE, file |-> file, movs |-> movs, hechos |-> 0]
    ELSE LET it == Head(items)
             r == actualizar_stock(file, movs, it.tipo, it.variante, -it.cant, "", FALSE, t)
         IN  IF r.ok
             THEN LET resto == Descontar(r.file,
                                         add_movimiento(movs, t, "SALIDA", it.tipo,
                                                        it.variante, it.cant, ""),
                                         Tail(items), t)
                  IN  [resto EXCEPT !.hechos = @ + 1]
             ELSE [ok |-> FALSE, file |-> file, movs |-> movs, hechos |-> 0]

\* the rows of the finished-goods table that match a product and a variant
MaskProducto(prods, tipo, variante) ==
    {i \in 1..Len(prods) :
        /\ StripAtom(prods[i].tipo_producto) = StripAtom(tipo)
        /\ Strip(Str(prods[i].variante_producto)) = Strip(variante)}

\* the credit storing the produced quantity in place of adding it
AcreditarProducto_Pisa(file, tipo, variante, q) ==
    LET leido == ReadProductos(file)
        prods == IF MaskProducto(leido, tipo, variante) = {}
                 THEN Append(leido, FilaProducto(tipo, variante, 0))
                 ELSE leido
        idx == Ascendente(MaskProducto(prods, tipo, variante))[1]
    IN  SaveProductos([prods EXCEPT ![idx].stock_actual = q])

\* step 5, the credit of the finished-goods line, created at 0 when no row matches
AcreditarProducto(file, tipo, variante, q) ==
    LET leido == ReadProductos(file)
        prods == IF MaskProducto(leido, tipo, variante) = {}
                 THEN Append(leido, FilaProducto(tipo, variante, 0))
                 ELSE leido
        idx == Ascendente(MaskProducto(prods, tipo, variante))[1]
    IN  SaveProductos([prods EXCEPT ![idx].stock_actual = @ + q])

FilaProduccion(t, tipo, cant, nota, variante) ==
    [fecha |-> t, tipo_producto |-> tipo, cantidad |-> cant, nota |-> nota,
     variante_producto |-> variante]

\* the product types the selectors offer: those of the finished-goods table
\* and the two basic ones
tipos_prod == {productos[i].tipo_producto : i \in 1..Len(productos)}
                  \cup {"pincel normal", "pinceleta"}

\* the variant the selectors of a product type build
VariantesProducto(tipo) ==
    IF tipo = "pincel normal"
    THEN {Unir(<<Medidas[i]>>, <<Virolas[j]>>) : i \in 1..Len(Medidas), j \in 1..Len(Virolas)}
    ELSE IF tipo = "pinceleta"
    THEN {Unir(<<Colores[i]>>, <<ChapitasPinceleta[j]>>) :
              i \in 1..Len(Colores), j \in 1..Len(ChapitasPinceleta)}
    ELSE {Vacio}

\* the manual lines of the form: NItems slots, at most MaxItems of them filled
NItems == 3
MaxItems == 1
ItemVacio == Linea("", Vacio, 0)
OpcionesItem == {Linea("Mango", <<"15", "virola 1">>, 1), Linea("Chapita", <<"15">>, 1)}
ItemsManuales ==
    {<<>>} \cup
    UNION {{its \o [k \in 1..(NItems - n) |-> ItemVacio] : its \in [1..n -> OpcionesItem]} :
               n \in 1..MaxItems}

\* the lists joined the other way round: the manual lines first
UnirItems_ManualPrimero(auto, manuales) == manuales \o auto

\* all_items = auto_items + manual_validos
UnirItems(auto, manuales) == auto \o manuales

\* the manual lines of a form with two of its slots in use, in either order
ItemsDobles ==
    {<<a, b, ItemVacio>> : a \in OpcionesItem \cup {ItemVacio},
                           b \in OpcionesItem \cup {ItemVacio}}

\* page_produccion, "Registrar producción"
RegistrarProduccion(tipo_prod, variante_producto, cant, auto_desc, items) ==
    LET fila == FilaProduccion(now, tipo_prod, cant, "",
                               IF tipo_prod = "pincel normal" /\ NoVacio(variante_producto)
                               THEN variante_producto ELSE Vacio)
        all_items == UnirItems(auto_items(tipo_prod, variante_producto, cant, auto_desc),
                               manual_validos(items))
        insuf == Insuf(ReadStock(stock_mp), all_items)
        d == Descontar(stock_mp, movimientos, all_items, now)
        res == IF insuf # <<>> THEN "insuf" ELSE IF ~d.ok THEN "fallo_descuento" ELSE "ok"
    IN  /\ pre' = Tablas
        /\ UNCHANGED tx
        /\ last' = [Ult("produccion", res, tipo_prod, variante_producto, cant)
                        EXCEPT !.auto = auto_desc, !.items = all_items, !.insuf = insuf,
                               !.manual = items,
                               !.hechos = IF insuf # <<>> THEN 0 ELSE d.hechos]
        /\ produccion' = Append(produccion, fila)
        /\ stock_mp' = IF insuf # <<>> THEN stock_mp ELSE d.file
        /\ movimientos' = IF insuf # <<>> THEN movimientos ELSE d.movs
        /\ productos' = IF res = "ok"
                        THEN AcreditarProducto(productos, tipo_prod, variante_producto, cant)
                        ELSE productos
        /\ now' = now + 1
        /\ ops' = ops + 1
        /\ UNCHANGED <<catalogo, pedidos, despachos>>

\* ---------------------------------------------------------------- sessions
\* page_produccion run by several operators at once. Every session runs the
\* handler in a thread of its own and nothing locks the files, so the runs
\* interleave between one file operation and the next: after the pre-check,
\* and after each pass of the debit loop.

\* a run that undoes its debits when one fails: the stock table goes back to
\* what the pre-check read
AlFallar_Deshace(actual, inicio) == inicio

\* st.error(...); return: the run ends and the files stay as they are
AlFallar(actual, inicio) == actual

\* steps 1 to 3 of "Registrar producción" in the session of operator o: the
\* production record, the consumption list and the pre-check
Validar(o, tipo_prod, variante_producto, cant, auto_desc, items) ==
    LET fila == FilaProduccion(now, tipo_prod, cant, "",
                               IF tipo_prod = "pincel normal" /\ NoVacio(variante_producto)
                               THEN variante_producto ELSE Vacio)
        all_items == UnirItems(auto_items(tipo_prod, variante_producto, cant, auto_desc),
                               manual_validos(items))
        insuf == Insuf(ReadStock(stock_mp), all_items)
    IN  /\ tx[o].pc = "libre"
        /\ pre' = Tablas
        /\ last' = [Ult("validar", IF insuf # <<>> THEN "insuf" ELSE "paso",
                        tipo_prod, variante_producto, cant)
                        EXCEPT !.auto = auto_desc, !.items = all_items, !.insuf = insuf,
                               !.quien = o]
        /\ produccion' = Append(produccion, fila)
        /\ tx' = [tx EXCEPT ![o] =
                     IF insuf # <<>> THEN TxLibre
                     ELSE [pc |-> "debito", tipo |-> tipo_prod,
                           variante |-> variante_producto, cant |-> cant,
                           items |-> all_items, hechos |-> 0, inicio |-> stock_mp]]
        /\ now' = now + 1
        /\ ops' = ops + 1
        /\ UNCHANGED <<catalogo, stock_mp, movimientos, productos, pedidos, despachos>>

\* one pass of the debit loop (step 4) in the session of operator o:
\* actualizar_stock and add_movimiento for the next line, or the end of the
\* run when the debit fails
Debitar(o) ==
    LET t == tx[o]
        it == t.items[t.hechos + 1]
        r == actualizar_stock(stock_mp, movimientos, it.tipo, it.variante, -it.cant,
                              "", FALSE, now)
    IN  /\ t.pc = "debito"
        /\ t.hechos < Len(t.items)
        /\ pre' = Tablas
        /\ last' = [Ult("debito", IF r.ok THEN "ok" ELSE "fallo", t.tipo, t.variante, t.cant)
                        EXCEPT !.items = t.items, !.hechos = t.hechos, !.quien = o]
        /\ IF r.ok
           THEN /\ stock_mp' = r.file
                /\ movimientos' = add_movimiento(movimientos, now, "SALIDA", it.tipo,
                                                 it.variante, it.cant, "")
                /\ tx' = [tx EXCEPT ![o].hechos = @ + 1]
           ELSE /\ stock_mp' = AlFallar(stock_mp, t.inicio)
                /\ tx' = [tx EXCEPT ![o] = TxLibre]
                /\ UNCHANGED movimientos
        /\ UNCHANGED <<catalogo, productos, produccion, pedidos, despachos, now, ops>>

\* step 5 in the session of operator o, once every line is debited: the credit
\* of the finished-goods line
Acreditar(o) ==
    LET t == tx[o]
    IN  /\ t.pc = "debito"
        /\ t.hechos = Len(t.items)
        /\ pre' = Tablas
        /\ last' = [Ult("credito", "ok", t.tipo, t.variante, t.cant)
                        EXCEPT !.items = t.items, !.hechos = t.hechos, !.quien = o]
        /\ productos' = AcreditarProducto(productos, t.tipo, t.variante, t.cant)
        /\ tx' = [tx EXCEPT ![o] = TxLibre]
        /\ UNCHANGED <<catalogo, stock_mp, movimientos, produccion, pedidos, despachos,
                       now, ops>>

\* "Aplicar ajuste" run by several operators at once, taken apart at the two
\* file operations of actualizar_stock: the read of the stock table and its
\* rewrite.

\* stock = read_df(FILES["stock_mp"]) in the session of operator o: the table
\* as it is now is what the rest of the call works on
LeerParaDelta(o, tipo, variante, delta) ==
    /\ tx[o].pc = "libre"
    /\ pre' = Tablas
    /\ last' = [Ult("leer_delta", "ok", tipo, variante, delta) EXCEPT !.quien = o]
    /\ tx' = [tx EXCEPT ![o] = [pc |-> "leido", tipo |-> tipo, variante |-> variante,
                                cant |-> delta, items |-> <<>>, hechos |-> 0,
                                inicio |-> stock_mp]]
    /\ ops' = ops + 1
    /\ UNCHANGED <<catalogo, stock_mp, movimientos, productos, produccion, pedidos,
                   despachos, now>>

\* the rest of the call in the session of operator o: the new quantity worked
\* out on the table that was read, save_df of that whole table, and the
\* movement record of the handler
EscribirDelta(o) ==
    LET t == tx[o]
        r == actualizar_stock(t.inicio, movimientos, t.tipo, t.variante, t.cant,
                              "", FALSE, now)
    IN  /\ t.pc = "leido"
        /\ pre' = Tablas
        /\ last' = [Ult("escribir_delta", IF r.ok THEN "ok" ELSE "fallo",
                        t.tipo, t.variante, t.cant)
                        EXCEPT !.quien = o, !.val = r.val]
        /\ IF r.ok
           THEN /\ stock_mp' = r.file
                /\ movimientos' = add_movimiento(movimientos, now, TipoDeAjuste(t.cant),
                                                 t.tipo, t.variante, Abs(t.cant), "")
           ELSE UNCHANGED <<stock_mp, movimientos>>
        /\ tx' = [tx EXCEPT ![o] = TxLibre]
        /\ UNCHANGED <<catalogo, productos, produccion, pedidos, despachos, now, ops>>

\* ---------------------------------------------------------------- orders
FilaPedido(id, tipo, variante, cant, f_entrega, estado, nota) ==
    [id |-> id, tipo_producto |-> tipo, variante_producto |-> variante,
     cantidad |-> cant, fecha_entrega |-> f_entrega, estado |-> estado, nota |-> nota]

\* the + 1 forgotten: the largest id is handed out again
SiguienteId_SinSumar(ids) ==
    IF ids = {} THEN 1 ELSE CHOOSE m \in ids : \A x \in ids : x <= m

\* int(df[col].max()) + 1, or 1 for an empty table
SiguienteId(ids) ==
    IF ids = {} THEN 1 ELSE (CHOOSE m \in ids : \A x \in ids : x <= m) + 1

\* page_pedidos, "Agregar pedido"
AgregarPedido(tipo_prod, variante_producto, cant) ==
    LET leido == ReadPedidos(pedidos)
        nuevo_id == SiguienteId({leido[i].id : i \in 1..Len(leido)})
    IN  /\ pre' = Tablas
        /\ UNCHANGED tx
        /\ last' = [Ult("agregar_pedido", "ok", tipo_prod, variante_producto, cant)
                        EXCEPT !.pid = nuevo_id]
        /\ pedidos' = SavePedidos(Append(leido,
                          FilaPedido(nuevo_id, tipo_prod, variante_producto, cant,
                                     now, "pendiente", "")))
        /\ ops' = ops + 1
        /\ UNCHANGED <<catalogo, stock_mp, movimientos, productos, produccion, despachos,
                       now>>

\* the row selection forgotten: every order gets the state
PonerEstado_Todos(df, pid, estado) ==
    [i \in 1..Len(df) |-> [df[i] EXCEPT !.estado = estado]]

\* the selection kept in place of the table: the other orders are dropped
PonerEstado_Borra(df, pid, estado) ==
    SelectSeq([i \in 1..Len(df) |-> [df[i] EXCEPT !.estado = estado]],
              LAMBDA r : r.id = pid)

\* pedidos_base.loc[pedidos_base["id"] == pid, "estado"] = estado
PonerEstado(df, pid, estado) ==
    [i \in 1..Len(df) |-> IF df[i].id = pid THEN [df[i] EXCEPT !.estado = estado] ELSE df[i]]

\* the lines of a recipe as the order handler hands them to the debit
\* page_pedidos, the form "Nuevo pedido" as it is drawn: the materials the order
\* would need and the warning about those short of stock; nothing is written
VerNecesidades(tipo_prod, variante_producto, cant) ==
    LET needs == compute_mp_needs(tipo_prod, variante_producto, cant)
        insuf == Insuf(ReadStock(stock_mp), needs)
    IN  /\ pre' = Tablas
        /\ UNCHANGED tx
        /\ last' = [Ult("necesidades", IF insuf # <<>> THEN "aviso" ELSE "ok",
                        tipo_prod, variante_producto, cant)
                        EXCEPT !.items = needs, !.insuf = insuf]
        /\ ops' = ops + 1
        /\ UNCHANGED <<catalogo, stock_mp, movimientos, productos, produccion, pedidos,
                       despachos, now>>

\* the check let a quantity of zero through
CantidadInvalida_SoloNegativa(qty) == qty < 0

\* if qty <= 0: the quantity check of "Generar producción" and of "Despachar"
CantidadInvalida(qty) == qty <= 0

StripLineas(items) ==
    [k \in 1..Len(items) |->
        Linea(StripAtom(items[k].tipo), Strip(items[k].variante), items[k].cant)]

Modos == {"Completo", "Parcial"}

\* page_pedidos, "Generar producción" of the row of order pid
GenerarProduccion(pid, modo_prod, qty_prod) ==
    LET pedidos_base == ReadPedidos(pedidos)
        rb == pedidos_base[Ascendente({i \in 1..Len(pedidos_base) :
                                           pedidos_base[i].id = pid})[1]]
        tipo_producto == StripAtom(rb.tipo_producto)
        variante_producto == Strip(Str(rb.variante_producto))
        solicitado == rb.cantidad
        qty == IF modo_prod = "Completo" THEN solicitado ELSE qty_prod
        needs == compute_mp_needs(tipo_producto, variante_producto, qty)
        insuf == Insuf(ReadStock(stock_mp), needs)
        d == Descontar(stock_mp, movimientos, StripLineas(needs), now)
        res == IF CantidadInvalida(qty) THEN "invalida"
               ELSE IF insuf # <<>> THEN "insuf"
               ELSE IF ~d.ok THEN "fallo_descuento" ELSE "ok"
    IN  /\ pre' = Tablas
        /\ UNCHANGED tx
        /\ last' = [Ult("generar", res, tipo_producto, variante_producto, qty)
                        EXCEPT !.modo = modo_prod, !.pid = pid,
                               !.items = IF CantidadInvalida(qty) THEN <<>> ELSE needs,
                               !.insuf = IF CantidadInvalida(qty) THEN <<>> ELSE insuf,
                               !.hechos = IF res \in {"ok", "fallo_descuento"}
                                          THEN d.hechos ELSE 0]
        /\ IF res \in {"invalida", "insuf"}
           THEN UNCHANGED <<stock_mp, movimientos, productos, produccion, pedidos, now, ops>>
           ELSE /\ ops' = ops + 1
                /\ produccion' = Append(produccion,
                                        FilaProduccion(now, tipo_producto, qty, pid,
                                                       variante_producto))
                /\ stock_mp' = d.file
                /\ movimientos' = d.movs
                /\ now' = now + 1
                /\ IF d.ok
                   THEN /\ productos' = AcreditarProducto(productos, tipo_producto,
                                                          variante_producto, qty)
                        /\ pedidos' = SavePedidos(PonerEstado(pedidos_base, pid,
                                                              "en_produccion"))
                   ELSE UNCHANGED <<productos, pedidos>>
        /\ UNCHANGED <<catalogo, despachos>>

FilaDespacho(id, t, pid, tipo, variante, cant) ==
    [id_despacho |-> id, fecha |-> t, pedido_id |-> pid, tipo_producto |-> tipo,
     variante_producto |-> variante, cantidad |-> cant]

\* the check dropped: any quantity is dispatched
TerminadosInsuficientes_Nunca(disp, qty) == FALSE

\* if disp < qty
TerminadosInsuficientes(disp, qty) == disp < qty

\* the comparison turned round and the mode forgotten
EstadoDespacho_AlReves(modo_row, qty, solicitado) ==
    IF qty <= solicitado THEN "completado" ELSE "confirmado"

\* the state a dispatch leaves the order in
EstadoDespacho(modo_row, qty, solicitado) ==
    IF modo_row = "Completo" /\ qty >= solicitado THEN "completado" ELSE "confirmado"

\* the quantity taken from every line of the table
DebitarTerminado_Todas(prods, idxp, qty) ==
    [i \in 1..Len(prods) |-> [prods[i] EXCEPT !.stock_actual = @ - qty]]

\* prods.at[idxp, "stock_actual"] = disp - qty
DebitarTerminado(prods, idxp, qty) ==
    [prods EXCEPT ![idxp].stock_actual = @ - qty]

\* page_pedidos, "Despachar" of the row of order pid
Despachar(pid, modo_row, qty_row) ==
    LET pedidos_base == ReadPedidos(pedidos)
        rb == pedidos_base[Ascendente({i \in 1..Len(pedidos_base) :
                                           pedidos_base[i].id = pid})[1]]
        tipo_prod == StripAtom(rb.tipo_producto)
        variante_producto == Strip(Str(rb.variante_producto))
        solicitado == rb.cantidad
        qty == IF modo_row = "Completo" THEN solicitado ELSE qty_row
        prods == ReadProductos(productos)
        maskp == MaskProducto(prods, tipo_prod, variante_producto)
        idxp == Ascendente(maskp)[1]
        disp == prods[idxp].stock_actual
        next_id == SiguienteId({despachos[i].id_despacho : i \in 1..Len(despachos)})
        res == IF CantidadInvalida(qty) THEN "invalida"
               ELSE IF maskp = {} THEN "sin_terminados"
               ELSE IF TerminadosInsuficientes(disp, qty) THEN "insuf_terminados"
               ELSE "ok"
        estado == EstadoDespacho(modo_row, qty, solicitado)
    IN  /\ pre' = Tablas
        /\ UNCHANGED tx
        /\ last' = [Ult("despachar", res, tipo_prod, variante_producto, qty)
                        EXCEPT !.modo = modo_row, !.pid = pid]
        /\ IF res = "ok"
           THEN /\ productos' = SaveProductos(DebitarTerminado(prods, idxp, qty))
                /\ despachos' = Append(despachos,
                                       FilaDespacho(next_id, now, pid, tipo_prod,
                                                    variante_producto, qty))
                /\ pedidos' = SavePedidos(PonerEstado(pedidos_base, pid, estado))
                /\ now' = now + 1
                /\ ops' = ops + 1
           ELSE UNCHANGED <<productos, despachos, pedidos, now, ops>>
        /\ UNCHANGED <<catalogo, stock_mp, movimientos, produccion>>

\* ---------------------------------------------------------------- order list
\* the filters of the list of orders
FiltrosEstado == {"todos", "pendiente", "cancelado"}

\* the values an operator types into a row of the list
EstadoTipeado == "cancelado"
NotaTipeada == "urgente"

\* df_show: the orders that pass the filters of state and of product type
Filtrar(df, est_f, tipo_f) ==
    SelectSeq(df, LAMBDA r : /\ (est_f # "todos" => r.estado = est_f)
                             /\ (tipo_f # "Todos" => r.tipo_producto = tipo_f))

\* base.drop(columns=["estado", "fecha_entrega", "nota"]).merge(edited[["id",
\* "estado", "fecha_entrega", "nota"]], on="id", how="left"): each row of base
\* with the three cells of each edited row of its id, or with three empty cells
\* when the edited table has no such row
RECURSIVE MergePedidos(_, _)
MergePedidos(base, edited) ==
    IF base = <<>> THEN <<>>
    ELSE LET b == Head(base)
             m == Ascendente({j \in 1..Len(edited) : edited[j].id = b.id})
         IN  (IF m = <<>>
              THEN <<[b EXCEPT !.estado = "", !.fecha_entrega = NaT, !.nota = ""]>>
              ELSE [k \in 1..Len(m) |->
                       [b EXCEPT !.estado = edited[m[k]].estado,
                                 !.fecha_entrega = edited[m[k]].fecha_entrega,
                                 !.nota = edited[m[k]].nota]])
             \o MergePedidos(Tail(base), edited)

\* page_pedidos, "Guardar cambios de pedidos": the list under the filters
\* est_f and tipo_f, with the state, the due date and the note of its row fila
\* typed over (fila = 0: nothing typed)
GuardarCambiosPedidos(est_f, tipo_f, fila, estado_n, fecha_n, nota_n) ==
    LET df_show == Filtrar(ReadPedidos(pedidos), est_f, tipo_f)
        edited == IF fila = 0 THEN df_show
                  ELSE [df_show EXCEPT ![fila].estado = estado_n,
                                       ![fila].fecha_entrega = fecha_n,
                                       ![fila].nota = nota_n]
        base == ReadPedidos(pedidos)
    IN  /\ pedidos # <<>>
        /\ fila \in 0..Len(df_show)
        /\ pre' = Tablas
        /\ UNCHANGED tx
        /\ last' = [Ult("guardar_pedidos", "ok", tipo_f, Vacio, 0)
                        EXCEPT !.modo = est_f,
                               !.pid = IF fila = 0 THEN 0 ELSE df_show[fila].id,
                               !.items = [k \in 1..Len(edited) |-> edited[k].id]]
        /\ pedidos' = SavePedidos(MergePedidos(base, edited))
        /\ ops' = ops + 1
        /\ UNCHANGED <<catalogo, stock_mp, movimientos, productos, produccion, despachos,
                       now>>

\* ---------------------------------------------------------------- finished goods
\* page_stock_producto, "Aplicar ajuste a terminados": the type and the variant
\* are picked from the texts of the table (those of row fila)
AjusteTerminados(fila, delta) ==
    LET base == ReadProductos(productos)
        t_aj == base[fila].tipo_producto
        v_aj == Str(base[fila].variante_producto)
        mask == MaskProducto(base, t_aj, v_aj)
        idx == Ascendente(mask)[1]
        nuevo_stock == base[idx].stock_actual + delta
        res == IF mask = {} THEN "no_encontrado"
               ELSE IF nuevo_stock < 0 THEN "negativo" ELSE "ok"
    IN  /\ pre' = Tablas
        /\ UNCHANGED tx
        /\ last' = [Ult("ajuste_terminados", res, t_aj, v_aj, delta)
                        EXCEPT !.val = IF res = "ok" THEN nuevo_stock ELSE NoVal]
        /\ IF res = "ok"
           THEN /\ productos' = SaveProductos([base EXCEPT ![idx].stock_actual = nuevo_stock])
                /\ ops' = ops + 1
           ELSE UNCHANGED <<productos, ops>>
        /\ UNCHANGED <<catalogo, stock_mp, movimientos, produccion, pedidos, despachos, now>>

\* ---------------------------------------------------------------- merge
\* the place of a type and of a variant in the order of their texts
RangoTipo(t) ==
    CASE t = "Cerda" -> 1
      [] t = "Cerda pinceleta" -> 2
      [] t = "Chapita" -> 3
      [] t = "Chapita pinceleta" -> 4
      [] t = "Mango" -> 5
      [] t = "Manguito pinceleta" -> 6
      [] OTHER -> 7

RangoVariante(v) ==
    CASE v = <<"15">> -> 1
      [] v = <<"15", "virola 1">> -> 2
      [] v = <<"20">> -> 3
      [] v = <<"40">> -> 4
      [] v = <<"blanco">> -> 5
      [] v = <<"estándar">> -> 6
      [] OTHER -> 7

RangoClave(k) == RangoTipo(k[1]) * 10 + RangoVariante(k[2])

\* the largest element of a non-empty finite set of integers
Max(S) == CHOOSE m \in S : \A x \in S : x <= m

\* the merge keeping the quantity of the first row of the group
AgregarGrupo_Primero(base, idxs) ==
    [tipo |-> base[idxs[1]].tipo, variante |-> base[idxs[1]].variante,
     stock_minimo |-> Max({base[idxs[k]].stock_minimo : k \in 1..Len(idxs)}),
     stock_actual |-> base[idxs[1]].stock_actual,
     ultima_entrada |-> Max({base[idxs[k]].ultima_entrada : k \in 1..Len(idxs)}),
     proveedor_mas_frecuente |->
         LET con == {k \in 1..Len(idxs) : base[idxs[k]].proveedor_mas_frecuente # ""}
         IN  IF con = {} THEN ""
             ELSE base[idxs[CHOOSE k \in con : \A j \in con : k <= j]].proveedor_mas_frecuente]

\* .agg({"stock_minimo": "max", "stock_actual": "sum", "ultima_entrada": "max",
\*       "proveedor_mas_frecuente": "first"}) on the rows idxs of one group
AgregarGrupo(base, idxs) ==
    [tipo |-> base[idxs[1]].tipo, variante |-> base[idxs[1]].variante,
     stock_minimo |-> Max({base[idxs[k]].stock_minimo : k \in 1..Len(idxs)}),
     stock_actual |-> LET RECURSIVE suma(_)
                          suma(k) == IF k = 0 THEN 0
                                     ELSE base[idxs[k]].stock_actual + suma(k - 1)
                      IN  suma(Len(idxs)),
     ultima_entrada |-> Max({base[idxs[k]].ultima_entrada : k \in 1..Len(idxs)}),
     proveedor_mas_frecuente |->
         LET con == {k \in 1..Len(idxs) : base[idxs[k]].proveedor_mas_frecuente # ""}
         IN  IF con = {} THEN ""
             ELSE base[idxs[CHOOSE k \in con : \A j \in con : k <= j]].proveedor_mas_frecuente]

\* the groups found on the keys as the file holds them, the rows written
\* with the keys as read
Fusionar_ClaveCruda(file) ==
    LET claves == {<<file[i].tipo, file[i].variante>> : i \in 1..Len(file)}
        rangos == Ascendente({RangoClave(k) : k \in claves})
        clave(r) == CHOOSE k \in claves : RangoClave(k) = r
    IN  [n \in 1..Len(rangos) |->
            AgregarGrupo(ReadStock(file),
                         Ascendente({i \in 1..Len(file) :
                                        <<file[i].tipo, file[i].variante>> = clave(rangos[n])}))]

\* base.groupby(["tipo", "variante"], as_index=False).agg(...): one row per
\* key, the keys in ascending order
Fusionar(file) ==
    LET base == ReadStock(file)
        claves == {<<base[i].tipo, base[i].variante>> : i \in 1..Len(base)}
        rangos == Ascendente({RangoClave(k) : k \in claves})
        clave(r) == CHOOSE k \in claves : RangoClave(k) = r
    IN  [n \in 1..Len(rangos) |->
            AgregarGrupo(base, Ascendente(Mask(base, clave(rangos[n])[1],
                                               clave(rangos[n])[2])))]

\* dups = dups[dups["_cnt"] > 1]: the keys with more than one row
Duplicados(file) ==
    LET base == ReadStock(file)
    IN  {<<base[i].tipo, base[i].variante>> : i \in 1..Len(base)}
            \cap {k \in {<<base[i].tipo, base[i].variante>> : i \in 1..Len(base)} :
                      Cardinality(Mask(base, k[1], k[2])) > 1}

\* editable_stock_table, "Fusionar duplicados": offered when there are duplicates
FusionarDuplicados ==
    /\ Duplicados(stock_mp) # {}
    /\ pre' = Tablas
    /\ UNCHANGED tx
    /\ last' = Ult("fusionar", "ok", "", Vacio, 0)
    /\ stock_mp' = Fusionar(stock_mp)
    /\ ops' = ops + 1
    /\ UNCHANGED <<catalogo, movimientos, productos, produccion, pedidos, despachos, now>>

\* ---------------------------------------------------------------- catalog
\* the files an operator uploads as catalog: one that names a Chapita the
\* stock has no line for and leaves out the others, one that lists a Mango twice
ArchivosCatalogo ==
    { <<FilaCatalogo("Mango", <<"15", "virola 1">>, 5),
        FilaCatalogo("Chapita", <<"20">>, 5)>>,
      <<FilaCatalogo("Mango", <<"15", "virola 1">>, 5),
        FilaCatalogo("Mango", <<"15", "virola 1">>, 7),
        FilaCatalogo("Chapita", <<"15">>, 5)>> }

\* stock.merge(df[["tipo", "variante", "stock_minimo"]], on=["tipo", "variante"],
\* how="right"): for each row of df in turn the stock rows of its key with the
\* minimum of df, or a fresh row when the stock has none; the other stock rows
\* are not in the result
RECURSIVE MergeRight(_, _)
MergeRight(stock, df) ==
    IF df = <<>> THEN <<>>
    ELSE LET d == Head(df)
             m == Ascendente(Mask(stock, d.tipo, d.variante))
         IN  (IF m = <<>>
              THEN <<[tipo |-> d.tipo, variante |-> d.variante,
                      stock_minimo |-> d.stock_minimo, stock_actual |-> 0,
                      ultima_entrada |-> NaT, proveedor_mas_frecuente |-> ""]>>
              ELSE [k \in 1..Len(m) |->
                       [stock[m[k]] EXCEPT !.stock_minimo = d.stock_minimo]])
             \o MergeRight(stock, Tail(df))

\* page_import_export, "Importar Catálogo": the catalog is replaced and the
\* stock file synchronised with it
ImportarCatalogo(df) ==
    /\ pre' = Tablas
    /\ UNCHANGED tx
    /\ last' = Ult("importar_catalogo", "ok", "", Vacio, 0)
    /\ catalogo' = df
    /\ stock_mp' = MergeRight(ReadStock(stock_mp), df)
    /\ ops' = ops + 1
    /\ UNCHANGED <<movimientos, productos, produccion, pedidos, despachos, now>>

\* the minimums an operator types into the table
Minimos == {0, 7}

\* base.drop(columns=["stock_minimo"]).merge(edited[["tipo", "variante",
\* "stock_minimo"]], on=["tipo", "variante"], how="left"): each row of base with
\* the minimum of each edited row of its key, or with none (0) when the
\* edited table has no such row
RECURSIVE MergeLeft(_, _)
MergeLeft(base, edited) ==
    IF base = <<>> THEN <<>>
    ELSE LET b == Head(base)
             m == Ascendente(Mask(edited, b.tipo, b.variante))
         IN  (IF m = <<>>
              THEN <<[b EXCEPT !.stock_minimo = 0]>>
              ELSE [k \in 1..Len(m) |->
                       [b EXCEPT !.stock_minimo = edited[m[k]].stock_minimo]])
             \o MergeLeft(Tail(base), edited)

\* editable_stock_table, "Guardar cambios de mínimos": the table as shown with
\* the minimum of row fila typed over
GuardarMinimos(fila, minimo) ==
    LET base == ReadStock(stock_mp)
        edited == [base EXCEPT ![fila].stock_minimo = minimo]
    IN  /\ pre' = Tablas
        /\ UNCHANGED tx
        /\ last' = [Ult("guardar_minimos", "ok", base[fila].tipo, base[fila].variante, 0)
                        EXCEPT !.val = minimo]
        /\ stock_mp' = MergeLeft(base, edited)
        /\ ops' = ops + 1
        /\ UNCHANGED <<catalogo, movimientos, productos, produccion, pedidos, despachos,
                       now>>

\* ---------------------------------------------------------------- system
\* the materials the operators of the model work on
TiposOperados == {"Mango", "Chapita"}

FilasOperadas == {i \in 1..Len(stock_mp) : StripAtom(stock_mp[i].tipo) \in TiposOperados}

\* an entry with the date left at today
PasoEntrada ==
    \E tipo \in {catalogo[i].tipo : i \in 1..Len(catalogo)} \cap TiposOperados :
    \E variante \in VariantesEntrada(tipo), cantidad \in Cantidades,
       proveedor \in Proveedores :
        Entrada(tipo, variante, cantidad, proveedor, Hoy)

\* an entry with a date of the operator's choice
PasoEntradaFechada ==
    \E tipo \in {catalogo[i].tipo : i \in 1..Len(catalogo)} \cap TiposOperados :
    \E variante \in VariantesEntrada(tipo) \ {Vacio}, fecha \in Fechas :
        Entrada(tipo, variante, 1, "", fecha)

PasoAjuste ==
    \E i \in FilasOperadas, delta \in (-MaxCant)..MaxCant :
        Ajuste(ReadStock(stock_mp)[i].tipo, ReadStock(stock_mp)[i].variante, delta)

PasoImportarCatalogo == \E df \in ArchivosCatalogo : ImportarCatalogo(df)

PasoGuardarMinimos ==
    \E fila \in FilasOperadas, minimo \in Minimos : GuardarMinimos(fila, minimo)

PasoAjusteTerminados ==
    \E fila \in 1..Len(productos), delta \in (-MaxCant)..MaxCant :
        AjusteTerminados(fila, delta)

PasoValidar ==
    \E o \in Operadores, tipo_prod \in tipos_prod :
    \E variante_producto \in VariantesProducto(tipo_prod), cant \in Cantidades,
       auto_desc \in (IF tipo_prod \in {"pincel normal", "pinceleta"}
                      THEN BOOLEAN ELSE {FALSE}),
       items \in ItemsManuales :
        Validar(o, tipo_prod, variante_producto, cant, auto_desc, items)

PasoDebitar == \E o \in Operadores : Debitar(o)

PasoAcreditar == \E o \in Operadores : Acreditar(o)

\* an entry of bristle, a material the stock uploads leave out
PasoEntradaCerda ==
    \E tipo \in {catalogo[i].tipo : i \in 1..Len(catalogo)} \cap {"Cerda"} :
    \E variante \in VariantesEntrada(tipo), cantidad \in Cantidades :
        Entrada(tipo, variante, cantidad, "", Hoy)

PasoLeerParaDelta ==
    \E o \in Operadores, i \in FilasOperadas, delta \in (-MaxCant)..MaxCant :
        LeerParaDelta(o, ReadStock(stock_mp)[i].tipo, ReadStock(stock_mp)[i].variante, delta)

PasoEscribirDelta == \E o \in Operadores : EscribirDelta(o)

PasoImportarStock == \E df \in ArchivosStock : ImportarStock(df)

PasoImportarProductos == \E df \in ArchivosProductos : ImportarProductos(df)

PasoRegistrarProduccion(Items) ==
    \E tipo_prod \in tipos_prod :
    \E variante_producto \in VariantesProducto(tipo_prod), cant \in Cantidades,
       auto_desc \in (IF tipo_prod \in {"pincel normal", "pinceleta"}
                      THEN BOOLEAN ELSE {FALSE}),
       items \in Items :
        RegistrarProduccion(tipo_prod, variante_producto, cant, auto_desc, items)

PasoAgregarPedido ==
    \E tipo_prod \in tipos_prod :
    \E variante_producto \in VariantesProducto(tipo_prod), cant \in Cantidades :
        AgregarPedido(tipo_prod, variante_producto, cant)

\* the quantity input of a row exists in partial mode only
CantidadesFila(modo) == IF modo = "Parcial" THEN 0..MaxCant ELSE {0}

PasoVerNecesidades ==
    \E tipo_prod \in tipos_prod :
    \E variante_producto \in VariantesProducto(tipo_prod), cant \in Cantidades :
        VerNecesidades(tipo_prod, variante_producto, cant)

PasoGenerarProduccion ==
    \E i \in 1..Len(pedidos), modo \in Modos :
    \E qty \in CantidadesFila(modo) :
        GenerarProduccion(pedidos[i].id, modo, qty)

PasoDespachar ==
    \E i \in 1..Len(pedidos), modo \in Modos :
    \E qty \in CantidadesFila(modo) :
        Despachar(pedidos[i].id, modo, qty)

PasoGuardarCambiosPedidos ==
    \E est_f \in FiltrosEstado,
       tipo_f \in {"Todos"} \cup {pedidos[i].tipo_producto : i \in 1..Len(pedidos)},
       fila \in 0..Len(pedidos) :
    \E estado_n \in {EstadoTipeado} \cup {pedidos[i].estado : i \in 1..Len(pedidos)},
       fecha_n \in {Dia} \cup {pedidos[i].fecha_entrega : i \in 1..Len(pedidos)},
       nota_n \in {NotaTipeada} \cup {pedidos[i].nota : i \in 1..Len(pedidos)} :
        GuardarCambiosPedidos(est_f, tipo_f, fila, estado_n, fecha_n, nota_n)

Next ==
    \/ PasoGuardarCambiosPedidos
    \/ FusionarDuplicados
    \/ PasoLeerParaDelta
    \/ PasoEscribirDelta
    \/ PasoEntradaCerda
    \/ ReimportarStock
    \/ ReimportarProductos
    \/ PasoValidar
    \/ PasoDebitar
    \/ PasoAcreditar
    \/ PasoAjusteTerminados
    \/ PasoImportarCatalogo
    \/ PasoGuardarMinimos
    \/ PasoVerNecesidades
    \/ PasoEntrada
    \/ PasoEntradaFechada
    \/ PasoAjuste
    \/ PasoImportarStock
    \/ PasoImportarProductos
    \/ PasoRegistrarProduccion(ItemsManuales)
    \/ PasoAgregarPedido
    \/ PasoGenerarProduccion
    \/ PasoDespachar

Spec == Init /\ [][Next]_vars

\* the raw-material ledger: entries, adjustments, uploads and production
NextLedger ==
    \/ ops < OpsLedger /\ PasoEntrada
    \/ ops < OpsLedger /\ PasoAjuste
    \/ ops < OpsLedger /\ PasoImportarStock
    \/ ops < OpsLedger /\ PasoRegistrarProduccion({<<>>})

SpecLedger == Init /\ [][NextLedger]_vars

\* production, from the production page and from an order
NextProduccion ==
    \/ ops < OpsProduccion /\ PasoImportarStock
    \/ ops < OpsProduccion /\ PasoRegistrarProduccion(ItemsManuales)
    \/ ops < OpsProduccion /\ PasoAgregarPedido
    \/ ops < OpsProduccion /\ PasoGenerarProduccion

SpecProduccion == Init /\ [][NextProduccion]_vars

\* orders and their dispatch
NextDespacho ==
    \/ ops < OpsDespacho /\ PasoImportarProductos
    \/ ops < OpsDespacho /\ PasoAgregarPedido
    \/ ops < OpsDespacho /\ PasoDespachar

SpecDespacho == Init /\ [][NextDespacho]_vars

\* the upkeep of the stock table: uploads, adjustments, entries and merges
NextStock ==
    \/ ops < OpsStock /\ PasoImportarStock
    \/ ops < OpsStock /\ PasoAjuste
    \/ ops < OpsStock /\ PasoEntrada
    \/ ops < OpsStock /\ FusionarDuplicados

SpecStock == Init /\ [][NextStock]_vars

\* the life of the orders: creation, production and dispatch
\* the order form and the production of orders: where the recipes are resolved
NextRecetas ==
    \/ ops < OpsRecetas /\ PasoImportarStock
    \/ ops < OpsRecetas /\ PasoImportarProductos
    \/ ops < OpsRecetas /\ PasoVerNecesidades
    \/ ops < OpsRecetas /\ PasoAgregarPedido
    \/ ops < OpsRecetas /\ PasoGenerarProduccion

SpecRecetas == Init /\ [][NextRecetas]_vars

\* the catalog and the stock table kept in step with it
NextCatalogo ==
    \/ ops < OpsCatalogo /\ PasoImportarCatalogo
    \/ ops < OpsCatalogo /\ PasoImportarStock
    \/ ops < OpsCatalogo /\ PasoEntrada
    \/ ops < OpsCatalogo /\ PasoGuardarMinimos
    \/ ops < OpsCatalogo /\ FusionarDuplicados

SpecCatalogo == Init /\ [][NextCatalogo]_vars

\* the finished goods: uploads, production, dispatch and adjustments
NextTerminados ==
    \/ ops < OpsTerminados /\ PasoImportarProductos
    \/ ops < OpsTerminados /\ PasoRegistrarProduccion({<<>>})
    \/ ops < OpsTerminados /\ PasoAgregarPedido
    \/ ops < OpsTerminados /\ PasoDespachar
    \/ ops < OpsTerminados /\ PasoAjusteTerminados

SpecTerminados == Init /\ [][NextTerminados]_vars

\* two operators on the production page at once, after an upload of stock
NextSesiones ==
    \/ ops < OpsSesiones /\ PasoImportarStock
    \/ ops < OpsSesiones /\ PasoValidar
    \/ PasoDebitar
    \/ PasoAcreditar

SpecSesiones == Init /\ [][NextSesiones]_vars

\* backups: the tables worked on, downloaded and uploaded again
NextRespaldo ==
    \/ ops < OpsRespaldo /\ PasoImportarStock
    \/ ops < OpsRespaldo /\ PasoImportarProductos
    \/ ops < OpsRespaldo /\ PasoEntrada
    \/ ops < OpsRespaldo /\ PasoRegistrarProduccion({<<>>})
    \/ ops < OpsRespaldo /\ ReimportarStock
    \/ ops < OpsRespaldo /\ ReimportarProductos

SpecRespaldo == Init /\ [][NextRespaldo]_vars

\* materials whose stock line is missing: after an upload of stock that leaves
\* them out, or after a catalog import that drops them under a production run
NextFaltante ==
    \/ ops < OpsFaltante /\ PasoImportarStock
    \/ ops < OpsFaltante /\ PasoImportarCatalogo
    \/ ops < OpsFaltante /\ PasoEntradaCerda
    \/ ops < OpsFaltante /\ PasoValidar
    \/ PasoDebitar
    \/ PasoAcreditar

SpecFaltante == Init /\ [][NextFaltante]_vars

\* production with several manual lines, after an upload of stock
NextOrden ==
    \/ ops < OpsOrden /\ PasoImportarStock
    \/ ops < OpsOrden /\ PasoRegistrarProduccion(ItemsDobles)

SpecOrden == Init /\ [][NextOrden]_vars

\* the ledger worked on from its first state, with no upload in between
NextAcuerdo ==
    \/ ops < OpsAcuerdo /\ PasoEntrada
    \/ ops < OpsAcuerdo /\ PasoAjuste
    \/ ops < OpsAcuerdo /\ PasoRegistrarProduccion(ItemsManuales)

SpecAcuerdo == Init /\ [][NextAcuerdo]_vars

\* the two places that build a bill of materials: the production page and
\* the production of an order
NextBOM ==
    \/ ops < OpsBOM /\ PasoImportarStock
    \/ ops < OpsBOM /\ PasoImportarProductos
    \/ ops < OpsBOM /\ PasoRegistrarProduccion({<<>>})
    \/ ops < OpsBOM /\ PasoAgregarPedido
    \/ ops < OpsBOM /\ PasoGenerarProduccion

SpecBOM == Init /\ [][NextBOM]_vars

\* the list of orders and its editor
NextEdicion ==
    \/ ops < OpsEdicion /\ PasoAgregarPedido
    \/ ops < OpsEdicion /\ PasoGuardarCambiosPedidos

SpecEdicion == Init /\ [][NextEdicion]_vars

\* two operators adjusting stock at once
NextAjustes ==
    \/ ops < OpsAjustes /\ PasoLeerParaDelta
    \/ PasoEscribirDelta

SpecAjustes == Init /\ [][NextAjustes]_vars

NextPedidos ==
    \/ ops < OpsPedidos /\ PasoImportarStock
    \/ ops < OpsPedidos /\ PasoImportarProductos
    \/ ops < OpsPedidos /\ PasoAgregarPedido
    \/ ops < OpsPedidos /\ PasoGenerarProduccion
    \/ ops < OpsPedidos /\ PasoDespachar

SpecPedidos == Init /\ [][NextPedidos]_vars

\* the dates of the movement log: dated entries, adjustments and production
NextFechas ==
    \/ ops < OpsFechas /\ PasoEntradaFechada
    \/ ops < OpsFechas /\ PasoAjuste
    \/ ops < OpsFechas /\ PasoRegistrarProduccion({<<>>})

SpecFechas == Init /\ [][NextFechas]_vars

\* ---------------------------------------------------------------- measures
\* the sum of f over the indexes in S
RECURSIVE SumaDe(_, _)
SumaDe(f, S) ==
    IF S = {} THEN 0
    ELSE LET x == CHOOSE y \in S : TRUE IN f[x] + SumaDe(f, S \ {x})

\* the quantity on hand of a material: the sum over its rows in the stock file
TotalStock(file, tipo, variante) ==
    LET r == ReadStock(file)
    IN  SumaDe([i \in 1..Len(r) |-> r[i].stock_actual], Mask(r, tipo, variante))

\* the rows of a material in the stock file
FilasDe(file, tipo, variante) == Mask(ReadStock(file), tipo, variante)

\* ---------------------------------------------------------------- C1
\* C1: every stock line holds a quantity >= 0 after any sequence of entries,
\* adjustments and production debits; an adjustment whose delta would take the
\* line below zero is rejected, reports the quantity the line holds, and
\* leaves the stock table and the movement log as they were.
C1_NoNegativo ==
    /\ \A i \in 1..Len(stock_mp) : stock_mp[i].stock_actual >= 0
    /\ (/\ last.op = "ajuste"
        /\ Cardinality(FilasDe(pre.stock_mp, last.tipo, last.variante)) = 1
        /\ TotalStock(pre.stock_mp, last.tipo, last.variante) + last.cant < 0)
       => /\ last.res = "fallo"
          /\ last.val = TotalStock(pre.stock_mp, last.tipo, last.variante)
          /\ stock_mp = pre.stock_mp
          /\ movimientos = pre.movimientos

\* a line holding stock refused an adjustment that would have emptied it twice over
C1_Witness ==
    /\ last.op = "ajuste"
    /\ last.res = "fallo"
    /\ last.cant < 0
    /\ last.val >= 1
    /\ TotalStock(stock_mp, last.tipo, last.variante) = last.val

\* ---------------------------------------------------------------- C2 .. C7
EsProduce == last.op \in {"produccion", "generar"}

\* the quantity the lines of a list ask of a material
SumaLineas(items, tipo, variante) ==
    SumaDe([k \in 1..Len(items) |-> items[k].cant],
           {k \in 1..Len(items) : /\ StripAtom(items[k].tipo) = tipo
                                  /\ Strip(items[k].variante) = variante})

MaterialesDe(file) ==
    {<<ReadStock(file)[i].tipo, ReadStock(file)[i].variante>> : i \in 1..Len(file)}

\* a text cell as any later read sees it
Norm(c) == GuardarCelda(LeerCelda(c))

FilasProducto(file, tipo, variante) ==
    {i \in 1..Len(file) : /\ file[i].tipo_producto = tipo
                          /\ Norm(file[i].variante_producto) = Norm(variante)}

\* the quantity on hand of a finished good: the sum over its rows
TotalProducto(file, tipo, variante) ==
    SumaDe([i \in 1..Len(file) |-> file[i].stock_actual], FilasProducto(file, tipo, variante))

\* every material went down by what the lines of the call ask of it
TodoDebitado ==
    \A m \in MaterialesDe(pre.stock_mp) \cup MaterialesDe(stock_mp) :
        TotalStock(stock_mp, m[1], m[2])
            = TotalStock(pre.stock_mp, m[1], m[2]) - SumaLineas(last.items, m[1], m[2])

\* the finished-goods line of the call went up by the produced quantity
Acreditado ==
    TotalProducto(productos, last.tipo, last.variante)
        = TotalProducto(pre.productos, last.tipo, last.variante) + last.cant

\* the stock table holds one row per material, as the ledger is meant to
UnaFilaPorMaterial(file) ==
    \A m \in MaterialesDe(file) : Cardinality(FilasDe(file, m[1], m[2])) = 1

\* C2: a produce whose pre-check finds a shortfall ends with no side effects:
\* no stock line, movement record, production record or finished-goods line
\* is added or changed, from the production page and from an order alike.
C2_SinEfectos ==
    (EsProduce /\ last.insuf # <<>>)
        => /\ stock_mp = pre.stock_mp
           /\ movimientos = pre.movimientos
           /\ produccion = pre.produccion
           /\ productos = pre.productos

\* C3: after any produce call either every consumption line has been debited
\* and the finished-goods line credited, or no stock line and no
\* finished-goods line has changed, lists with a repeated material included.
\* Stated for stock tables with one row per material.
C3_Atomico ==
    (EsProduce /\ UnaFilaPorMaterial(pre.stock_mp))
        => \/ TodoDebitado /\ Acreditado
           \/ stock_mp = pre.stock_mp /\ productos = pre.productos

C5_SinRegistro ==
    (EsProduce /\ UnaFilaPorMaterial(pre.stock_mp) /\ last.res = "fallo_descuento")
        => /\ last.hechos < Len(last.items)
           /\ Len(movimientos) = Len(pre.movimientos) + last.hechos
           /\ produccion = pre.produccion
           /\ productos = pre.productos
           /\ pedidos = pre.pedidos

\* C6: with one writer, a pre-check that passes for every line is followed by
\* a debit pass in which every debit succeeds.  Stated for stock tables with
\* one row per material.
C6_PrecheckBasta ==
    (EsProduce /\ UnaFilaPorMaterial(pre.stock_mp) /\ last.res # "invalida"
         /\ last.insuf = <<>>)
        => /\ last.res = "ok"
           /\ last.hechos = Len(last.items)

\* a line is short when no stock row matches it or the row holds less than it asks
LineaCorta(stock, it) ==
    LET F == MaskLinea(stock, it)
    IN  \/ F = {}
        \/ stock[CHOOSE i \in F : \A j \in F : i <= j].stock_actual < it.cant

\* C7: the pre-check reports every line that is short, not only the first:
\* the reports are those of exactly the lines short of stock, in line order.
C7_TodosLosFaltantes ==
    (EsProduce /\ last.res # "invalida")
        => LET stock == ReadStock(pre.stock_mp)
               cortas == Ascendente({k \in 1..Len(last.items) :
                                         LineaCorta(stock, last.items[k])})
           IN  /\ Len(last.insuf) = Len(cortas)
               /\ \A j \in 1..Len(cortas) :
                      /\ last.insuf[j].tipo = last.items[cortas[j]].tipo
                      /\ last.insuf[j].variante = last.items[cortas[j]].variante
                      /\ last.insuf[j].req = last.items[cortas[j]].cant

\* a pre-check that reported several lines of a list and passed another
C7_Witness ==
    /\ EsProduce
    /\ Len(last.insuf) >= 2
    /\ Len(last.insuf) < Len(last.items)

\* ---------------------------------------------------------------- C8 .. C10
FilaDePedido(file, pid) == file[CHOOSE i \in 1..Len(file) : file[i].id = pid]

\* the quantity dispatched for an order so far
TotalDespachado(file, pid) ==
    SumaDe([i \in 1..Len(file) |-> file[i].cantidad],
           {i \in 1..Len(file) : file[i].pedido_id = pid})

DespachoHecho == last.op = "despachar" /\ last.res = "ok"

\* C8: a successful dispatch of q debits the finished-goods line of the
\* order's product by q, appends one dispatch record of q, and leaves the
\* order completed if q >= the requested quantity and confirmed otherwise, in
\* full mode and in partial mode alike.
C8_Despacho ==
    DespachoHecho
        => /\ TotalProducto(productos, last.tipo, last.variante)
                  = TotalProducto(pre.productos, last.tipo, last.variante) - last.cant
           /\ Len(despachos) = Len(pre.despachos) + 1
           /\ SubSeq(despachos, 1, Len(pre.despachos)) = pre.despachos
           /\ despachos[Len(despachos)].cantidad = last.cant
           /\ despachos[Len(despachos)].pedido_id = last.pid
           /\ FilaDePedido(pedidos, last.pid).estado
                  = IF last.cant >= FilaDePedido(pre.pedidos, last.pid).cantidad
                    THEN "completado" ELSE "confirmado"

\* C9: a dispatch whose finished-goods line is missing or holds less than the
\* quantity to dispatch changes nothing: the finished-goods stock, the
\* dispatch records and the orders stay as they were.
C9_SinMutacion ==
    (/\ last.op = "despachar"
     /\ \/ FilasProducto(pre.productos, last.tipo, last.variante) = {}
        \/ TotalProducto(pre.productos, last.tipo, last.variante) < last.cant)
        => /\ last.res # "ok"
           /\ productos = pre.productos
           /\ despachos = pre.despachos
           /\ pedidos = pre.pedidos

\* a dispatch refused on a line that holds stock, but less than asked
C9_Witness ==
    /\ last.op = "despachar"
    /\ last.res = "insuf_terminados"
    /\ TotalProducto(productos, last.tipo, last.variante) > 0
    /\ TotalProducto(productos, last.tipo, last.variante) < last.cant

\* C10 as claimed: the partial dispatch that brings the total dispatched for
\* the order to the requested quantity or more leaves the order completed.
C10_TotalCompleta ==
    (/\ DespachoHecho
     /\ last.modo = "Parcial"
     /\ TotalDespachado(pre.despachos, last.pid) > 0
     /\ TotalDespachado(pre.despachos, last.pid)
            < FilaDePedido(pre.pedidos, last.pid).cantidad
     /\ TotalDespachado(despachos, last.pid)
            >= FilaDePedido(pre.pedidos, last.pid).cantidad)
        => FilaDePedido(pedidos, last.pid).estado = "completado"

\* C10, amended: a dispatch of less than the requested quantity leaves the
\* order confirmed, whatever total has been dispatched for it; the total is
\* not tracked.
C10_ParcialConfirma ==
    (DespachoHecho /\ last.cant < FilaDePedido(pre.pedidos, last.pid).cantidad)
        => FilaDePedido(pedidos, last.pid).estado = "confirmado"

\* the second partial dispatch of an order reaches the requested total and
\* the order is left confirmed
C10_Witness ==
    /\ DespachoHecho
    /\ last.modo = "Parcial"
    /\ last.cant < FilaDePedido(pre.pedidos, last.pid).cantidad
    /\ TotalDespachado(pre.despachos, last.pid) > 0
    /\ TotalDespachado(despachos, last.pid) >= FilaDePedido(pre.pedidos, last.pid).cantidad
    /\ FilaDePedido(pedidos, last.pid).estado = "confirmado"

\* ---------------------------------------------------------------- C11
\* the entry passed the checks of the form and reached actualizar_stock
EntradaAplicada == last.op = "entrada" /\ last.res \in {"ok", "fallo"}

\* C11: an entry or an adjustment on a material that has more than one stock
\* row fails and mutates nothing: the stock table is as it was and no
\* movement record is appended.
C11_UnicaFila ==
    (/\ EntradaAplicada \/ last.op = "ajuste"
     /\ Cardinality(FilasDe(pre.stock_mp, last.tipo, last.variante)) > 1)
        => /\ last.res = "fallo"
           /\ last.val = NoVal
           /\ stock_mp = pre.stock_mp
           /\ movimientos = pre.movimientos

\* an entry refused on a material with two rows, one of them holding stock
C11_Witness ==
    /\ EntradaAplicada
    /\ last.res = "fallo"
    /\ Cardinality(FilasDe(stock_mp, last.tipo, last.variante)) = 2
    /\ TotalStock(stock_mp, last.tipo, last.variante) > 0

\* ---------------------------------------------------------------- C12
\* C12: a successful entry, adjustment or production debit appends one
\* movement record of the magnitude of its delta; a successful produce appends
\* one production record of the produced quantity; a successful dispatch
\* appends one dispatch record of the dispatched quantity; an operation that
\* fails appends none of these records.
C12_UnRegistro ==
    /\ (EntradaAplicada \/ last.op = "ajuste")
           => IF last.res = "ok"
              THEN /\ Len(movimientos) = Len(pre.movimientos) + 1
                   /\ movimientos[Len(movimientos)].cantidad = Abs(last.cant)
              ELSE movimientos = pre.movimientos
    /\ EsProduce
           => /\ Len(movimientos) = Len(pre.movimientos) + last.hechos
              /\ \A k \in 1..last.hechos :
                     movimientos[Len(pre.movimientos) + k].cantidad = last.items[k].cant
              /\ IF last.res = "ok"
                 THEN /\ Len(produccion) = Len(pre.produccion) + 1
                      /\ produccion[Len(produccion)].cantidad = last.cant
                 ELSE produccion = pre.produccion
    /\ last.op = "despachar"
           => IF last.res = "ok"
              THEN /\ Len(despachos) = Len(pre.despachos) + 1
                   /\ despachos[Len(despachos)].cantidad = last.cant
              ELSE despachos = pre.despachos

\* ---------------------------------------------------------------- C13
NoEntrada(r) == r.tipo_movimiento # "ENTRADA"

ProveedoresDe(file, tipo, variante) ==
    LET mov == ReadMov(file)
        sel == Ascendente({i \in 1..Len(mov) :
                   /\ mov[i].tipo = tipo /\ mov[i].variante = variante
                   /\ mov[i].tipo_movimiento = "ENTRADA"})
    IN  [k \in 1..Len(sel) |-> mov[sel[k]].proveedor]

\* the values that occur most often in a column
Modas(col) ==
    LET cuenta(p) == Cardinality({i \in 1..Len(col) : col[i] = p})
    IN  {col[i] : i \in {k \in 1..Len(col) : \A j \in 1..Len(col) : cuenta(col[k]) >= cuenta(col[j])}}

\* C14: after a successful entry with a supplier the stock line has its last
\* entry time set and its most frequent supplier is the mode of the suppliers
\* of the ENTRADA records of the material, the record of this entry included:
\* the first entry of a line, with supplier S, leaves S.
C14_ProveedorModa ==
    (last.op = "entrada" /\ last.res = "ok" /\ last.prov # "")
        => LET f == ReadStock(stock_mp)
               i == CHOOSE k \in 1..Len(f) :
                        f[k].tipo = last.tipo /\ f[k].variante = last.variante
           IN  /\ f[i].ultima_entrada # NaT
               /\ f[i].proveedor_mas_frecuente
                      \in Modas(ProveedoresDe(movimientos, last.tipo, last.variante))

\* ---------------------------------------------------------------- C15
Maximo(S) == CHOOSE m \in S : \A x \in S : x <= m

\* C15: a dispatch record gets the largest dispatch id so far plus 1, or 1
\* when there is no record; the ids are distinct and grow in insertion order.
C15_IdsDespacho ==
    /\ \A i, j \in 1..Len(despachos) :
           i < j => despachos[i].id_despacho < despachos[j].id_despacho
    /\ DespachoHecho
           => despachos[Len(despachos)].id_despacho
                  = IF pre.despachos = <<>> THEN 1
                    ELSE Maximo({pre.despachos[i].id_despacho :
                                     i \in 1..Len(pre.despachos)}) + 1

\* a dispatch appended to a table that already held one
C15_Witness ==
    /\ DespachoHecho
    /\ Len(pre.despachos) >= 1
    /\ Len(despachos) = Len(pre.despachos) + 1

\* ---------------------------------------------------------------- C16
\* C16: a new order gets the largest order id so far plus 1, or 1 when there
\* is no order, and starts pendiente; over creations, productions and
\* dispatches the ids are distinct and grow in creation order, and no order
\* is removed.
C16_IdsPedido ==
    /\ \A i, j \in 1..Len(pedidos) : i < j => pedidos[i].id < pedidos[j].id
    /\ Len(pedidos) >= Len(pre.pedidos)
    /\ \A i \in 1..Len(pre.pedidos) : pedidos[i].id = pre.pedidos[i].id
    /\ last.op = "agregar_pedido"
           => /\ Len(pedidos) = Len(pre.pedidos) + 1
              /\ pedidos[Len(pedidos)].estado = "pendiente"
              /\ pedidos[Len(pedidos)].id
                     = IF pre.pedidos = <<>> THEN 1
                       ELSE Maximo({pre.pedidos[i].id : i \in 1..Len(pre.pedidos)}) + 1

\* an order produced or dispatched while the table holds another order,
\* created after it
C16_Witness ==
    /\ last.op \in {"generar", "despachar"}
    /\ last.res = "ok"
    /\ Len(pedidos) >= 2
    /\ last.pid = pedidos[1].id

\* ---------------------------------------------------------------- C17
\* C17: generating production for an order leaves the order en_produccion
\* exactly when the production succeeds, the other orders keeping their
\* state; when it fails (shortfall, invalid quantity, failed debit) the
\* orders are as they were.
C17_EnProduccion ==
    last.op = "generar"
        => IF last.res = "ok"
           THEN /\ Len(pedidos) = Len(pre.pedidos)
                /\ \A i \in 1..Len(pedidos) :
                       pedidos[i] = IF pre.pedidos[i].id = last.pid
                                    THEN [pre.pedidos[i] EXCEPT !.estado = "en_produccion"]
                                    ELSE pre.pedidos[i]
           ELSE pedidos = pre.pedidos

\* a production generated for one of two orders
C17_Witness ==
    /\ last.op = "generar"
    /\ last.res = "ok"
    /\ Len(pedidos) >= 2
    /\ \E i \in 1..Len(pedidos) : pedidos[i].estado = "pendiente"

\* a production of an order stopped by a debit that failed
C17_WitnessFallo ==
    /\ last.op = "generar"
    /\ last.res = "fallo_descuento"
    /\ last.hechos = 1

\* ---------------------------------------------------------------- C18
\* the place of a state in pendiente -> confirmado -> en_produccion -> completado
Rango(e) ==
    CASE e = "pendiente" -> 1
      [] e = "confirmado" -> 2
      [] e = "en_produccion" -> 3
      [] e = "completado" -> 4
      [] OTHER -> 5

\* C18: generating production and dispatching never move an order backwards
\* along pendiente -> confirmado -> en_produccion -> completado, and never
\* move an order that is completado or cancelado to another state.
C18_CicloDeVida ==
    last.op \in {"generar", "despachar"}
        => \A i \in 1..Len(pre.pedidos) :
               /\ Rango(pedidos[i].estado) >= Rango(pre.pedidos[i].estado)
               /\ pre.pedidos[i].estado \in {"completado", "cancelado"}
                      => pedidos[i].estado = pre.pedidos[i].estado

\* ---------------------------------------------------------------- C19
\* C19: a production generated for an order is of a quantity q,
\* 0 < q <= the quantity the order asks for: the whole of it in full mode,
\* never more than it in partial mode.
C19_CantidadAcotada ==
    (last.op = "generar" /\ last.res = "ok")
        => /\ 0 < last.cant
           /\ last.cant <= FilaDePedido(pre.pedidos, last.pid).cantidad
           /\ last.modo = "Completo"
                  => last.cant = FilaDePedido(pre.pedidos, last.pid).cantidad

\* ---------------------------------------------------------------- C20
\* the quantity produced for an order so far
TotalProducido(file, pid) ==
    SumaDe([i \in 1..Len(file) |-> file[i].cantidad],
           {i \in 1..Len(file) : file[i].nota = pid})

\* C20: generating production is neither idempotent nor capped: whatever the
\* state of the order and whatever has been produced for it, a call with a
\* quantity above 0 and stock for every line succeeds, debits the raw
\* materials and credits the finished goods again.
C20_SinTope ==
    (/\ last.op = "generar"
     /\ last.cant > 0
     /\ UnaFilaPorMaterial(pre.stock_mp)
     /\ \A k \in 1..Len(last.items) :
            ~LineaCorta(ReadStock(pre.stock_mp), last.items[k]))
        => /\ last.res = "ok"
           /\ TodoDebitado
           /\ Acreditado
           /\ TotalProducido(produccion, last.pid)
                  = TotalProducido(pre.produccion, last.pid) + last.cant

\* a second production of an order takes the total produced for it above
\* the quantity it asks for
C20_Witness ==
    /\ last.op = "generar"
    /\ last.res = "ok"
    /\ TotalProducido(pre.produccion, last.pid) > 0
    /\ TotalProducido(produccion, last.pid) > FilaDePedido(pedidos, last.pid).cantidad
    /\ Len(last.items) > 0

\* ---------------------------------------------------------------- C21
\* C21: the merge leaves one stock line per material; the line holds the sum
\* of the quantities and the largest minimum of the lines merged, so each
\* material has the same total before and after.
C21_Fusion ==
    last.op = "fusionar"
        => /\ UnaFilaPorMaterial(stock_mp)
           /\ MaterialesDe(stock_mp) = MaterialesDe(pre.stock_mp)
           /\ \A m \in MaterialesDe(pre.stock_mp) :
                  LET f == ReadStock(stock_mp)
                      g == ReadStock(pre.stock_mp)
                      i == CHOOSE k \in 1..Len(f) : f[k].tipo = m[1] /\ f[k].variante = m[2]
                  IN  /\ f[i].stock_actual = TotalStock(pre.stock_mp, m[1], m[2])
                      /\ TotalStock(stock_mp, m[1], m[2]) = TotalStock(pre.stock_mp, m[1], m[2])
                      /\ f[i].stock_minimo
                             = Max({g[k].stock_minimo : k \in Mask(g, m[1], m[2])})

\* a merge of two lines that both held stock, with different minimums
C21_Witness ==
    /\ last.op = "fusionar"
    /\ \E m \in MaterialesDe(pre.stock_mp) :
           LET g == ReadStock(pre.stock_mp)
           IN  /\ Cardinality(Mask(g, m[1], m[2])) = 2
               /\ \A k \in Mask(g, m[1], m[2]) : g[k].stock_actual > 0
               /\ \E k, j \in Mask(g, m[1], m[2]) : g[k].stock_minimo < g[j].stock_minimo

\* ---------------------------------------------------------------- C22
\* C22: the merge is idempotent: a second merge right after the first would
\* write the stock table the first one left, row for row.
C22_Idempotente ==
    last.op = "fusionar"
        => /\ Fusionar(stock_mp) = stock_mp
           /\ Duplicados(stock_mp) = {}

\* a merge that took rows away
C22_Witness ==
    /\ last.op = "fusionar"
    /\ Len(stock_mp) < Len(pre.stock_mp)
    /\ Len(stock_mp) >= 2

\* ---------------------------------------------------------------- C23
\* C23: the movement log is append-only: after every operation the log it found
\* is a prefix of the log it leaves, record for record.
C23_SoloAgrega ==
    /\ Len(movimientos) >= Len(pre.movimientos)
    /\ SubSeq(movimientos, 1, Len(pre.movimientos)) = pre.movimientos

\* ---------------------------------------------------------------- C24
\* C24: every movement record has a quantity > 0, whatever delta a manual
\* adjustment was given (0 included).
C24_CantidadPositiva ==
    \A i \in 1..Len(movimientos) : movimientos[i].cantidad > 0

\* ---------------------------------------------------------------- C25
\* C25: the recipe of q "pincel normal" of variant "<size> - <ferrule>" is
\* [(Mango, "<size> - <ferrule>", q), (Chapita, "<size>", q)]; that of q
\* "pinceleta" of variant "<color> - <ferrule-size>" is [(Manguito pinceleta,
\* color, q), (Chapita pinceleta, ferrule-size, q), (Cerda pinceleta, "estándar",
\* q)]; every other product type has the empty recipe.
C25_Receta ==
    (last.op = "necesidades" \/ (last.op = "generar" /\ last.res # "invalida"))
        => IF last.tipo = "pincel normal" /\ Len(last.variante) = 2
           THEN last.items = << [tipo |-> "Mango", variante |-> last.variante,
                                 cant |-> last.cant],
                                [tipo |-> "Chapita", variante |-> <<last.variante[1]>>,
                                 cant |-> last.cant] >>
           ELSE IF last.tipo = "pinceleta" /\ Len(last.variante) = 2
           THEN last.items = << [tipo |-> "Manguito pinceleta",
                                 variante |-> <<last.variante[1]>>, cant |-> last.cant],
                                [tipo |-> "Chapita pinceleta",
                                 variante |-> <<last.variante[2]>>, cant |-> last.cant],
                                [tipo |-> "Cerda pinceleta",
                                 variante |-> <<"estándar">>, cant |-> last.cant] >>
           ELSE last.tipo \notin {"pincel normal", "pinceleta"} => last.items = <<>>

\* the recipe of several brushes resolved for an order put into production
C25_Witness ==
    /\ last.op = "generar"
    /\ last.tipo = "pincel normal"
    /\ last.cant = MaxCant
    /\ Len(last.items) = 2

\* the form resolving the empty recipe of a product type that has none
C25_WitnessOtro ==
    /\ last.op = "necesidades"
    /\ last.tipo = "rodillo"
    /\ last.items = <<>>

\* ---------------------------------------------------------------- C26
\* C26: "Generar producción" and "Despachar" in partial mode with a quantity <= 0
\* reject the call before any mutation: no table changes.
C26_RechazoSinCambios ==
    (last.op \in {"generar", "despachar"} /\ last.modo = "Parcial" /\ last.cant <= 0)
        => /\ last.res = "invalida"
           /\ Tablas = pre

\* a quantity of 0 rejected on an order whose materials were all in stock
C26_Witness ==
    /\ last.op = "generar"
    /\ last.modo = "Parcial"
    /\ last.cant = 0
    /\ last.res = "invalida"
    /\ TotalStock(stock_mp, "Mango", <<"15", "virola 1">>) > 0
    /\ TotalStock(stock_mp, "Chapita", <<"15">>) > 0

\* ---------------------------------------------------------------- C27
\* the catalog rows of a material
CuentaCatalogo(cat, tipo, variante) ==
    Cardinality({i \in 1..Len(cat) : /\ StripAtom(cat[i].tipo) = tipo
                                     /\ Strip(cat[i].variante) = variante})

\* C27: an entry of a material that is not in the catalog, or that the catalog
\* lists more than once, is rejected: the stock table and the movement log
\* stay as they were.
C27_EntradaRechazada ==
    (/\ last.op = "entrada"
     /\ NoVacio(last.variante)
     /\ CuentaCatalogo(pre.catalogo, last.tipo, last.variante) # 1)
        => /\ last.res \in {"no_catalogo", "catalogo_duplicado"}
           /\ stock_mp = pre.stock_mp
           /\ movimientos = pre.movimientos

\* an entry of a material the catalog lacks and the stock table has no line for
C27_Witness ==
    /\ last.op = "entrada"
    /\ NoVacio(last.variante)
    /\ CuentaCatalogo(pre.catalogo, last.tipo, last.variante) = 0
    /\ FilasDe(pre.stock_mp, last.tipo, last.variante) = {}

\* an entry of a material the catalog lists twice and the stock table once
C27_WitnessDuplicado ==
    /\ last.op = "entrada"
    /\ CuentaCatalogo(pre.catalogo, last.tipo, last.variante) = 2
    /\ Cardinality(FilasDe(pre.stock_mp, last.tipo, last.variante)) = 1

\* ---------------------------------------------------------------- C28
\* the finished goods that have exactly one line
ConUnaLinea(file) ==
    {i \in 1..Len(file) :
        Cardinality(FilasProducto(file, file[i].tipo_producto,
                                  file[i].variante_producto)) = 1}

\* C28: every finished-goods line holds a quantity >= 0; an adjustment that
\* would make a line negative is rejected with the table unchanged; and no
\* production, dispatch or adjustment gives a second line to a product and
\* variant that had one.
C28_Terminados ==
    /\ \A i \in 1..Len(productos) : productos[i].stock_actual >= 0
    /\ (last.op = "ajuste_terminados" /\ last.res = "negativo")
           => productos = pre.productos
    /\ last.op \in {"produccion", "generar", "despachar", "ajuste_terminados"}
           => \A i \in ConUnaLinea(pre.productos) :
                  Cardinality(FilasProducto(productos, pre.productos[i].tipo_producto,
                                            pre.productos[i].variante_producto)) = 1

\* ---------------------------------------------------------------- C29
\* C29: a stock line is never deleted: every material that had a line before
\* an entry, a minimum-stock edit, a merge of duplicates or a catalog import
\* still has one after it.
C29_NuncaBorrada ==
    last.op \in {"entrada", "guardar_minimos", "fusionar", "importar_catalogo"}
        => MaterialesDe(pre.stock_mp) \subseteq MaterialesDe(stock_mp)

\* ---------------------------------------------------------------- C30
\* the lines of a list name each material once
SinRepetidos(items) ==
    \A j, k \in 1..Len(items) :
        (/\ StripAtom(items[j].tipo) = StripAtom(items[k].tipo)
         /\ Strip(items[j].variante) = Strip(items[k].variante)) => j = k

\* C30: with no lock, the production runs of two operators that interleave
\* between the pre-check and the debits can end in a debit that fails although
\* the run's pre-check passed; the run then stops and the debits it already
\* applied stay applied: the failing step changes no table (no rollback).
C30_SinRollback ==
    (last.op = "debito" /\ last.res = "fallo")
        => /\ stock_mp = pre.stock_mp
           /\ movimientos = pre.movimientos
           /\ productos = pre.productos
           /\ produccion = pre.produccion

\* a run whose pre-check passed on a table with one row per material, whose
\* lines name each material once, that debited a line and then failed on the
\* next one after the other operator's run debited in between
C30_Witness ==
    /\ last.op = "debito"
    /\ last.res = "fallo"
    /\ last.hechos >= 1
    /\ SinRepetidos(last.items)
    /\ UnaFilaPorMaterial(stock_mp)
    /\ Len(movimientos) > last.hechos
    /\ \A k \in 1..last.hechos :
           TotalStock(stock_mp, StripAtom(last.items[k].tipo), Strip(last.items[k].variante))
               < MaxCant

\* ---------------------------------------------------------------- C31
\* the finished-goods table as a read of the file gives it
ProductosLeidos(file) == ReadProductos(file)

\* C31: uploading the stock table just downloaded gives back the same stock
\* ledger, and uploading the finished-goods table just downloaded gives back
\* the same finished-goods stock: the same lines with the same quantities.
C31_IdaYVuelta ==
    /\ (last.op = "importar_stock" /\ last.items = ExportarStock(pre.stock_mp))
           => /\ last.res = "ok"
              /\ ReadStock(stock_mp) = ReadStock(pre.stock_mp)
    /\ (last.op = "importar_productos" /\ last.items = ExportarProductos(pre.productos))
           => /\ last.res = "ok"
              /\ ProductosLeidos(productos) = ProductosLeidos(pre.productos)

\* a stock table with an entry on it, uploaded again
C31_Witness ==
    /\ last.op = "importar_stock"
    /\ last.items = ExportarStock(pre.stock_mp)
    /\ \E i \in 1..Len(stock_mp) :
           /\ stock_mp[i].ultima_entrada # NaT
           /\ stock_mp[i].stock_actual > 0

\* a stock table with a padded key, uploaded again
C31_WitnessRelleno ==
    /\ last.op = "importar_stock"
    /\ last.items = ExportarStock(pre.stock_mp)
    /\ \E i \in 1..Len(pre.stock_mp) :
           pre.stock_mp[i].variante # Strip(pre.stock_mp[i].variante)

\* a finished-goods table with a line without variant, uploaded again
C31_WitnessProductos ==
    /\ last.op = "importar_productos"
    /\ last.items = ExportarProductos(pre.productos)
    /\ \E i \in 1..Len(pre.productos) :
           /\ LeerCelda(pre.productos[i].variante_producto) = NAN
           /\ pre.productos[i].stock_actual > 0

\* ---------------------------------------------------------------- C32
\* the line a debit step was about
LineaDebitada == last.items[last.hechos + 1]

\* C32: actualizar_stock on a material that has no stock line: with a delta
\* >= 0 (an entry) it adds exactly one line, with minimum 0 and the delta as
\* quantity, and leaves the other lines alone; with a delta < 0 (a debit) it
\* is rejected and the stock table stays as it was.
C32_SinLinea ==
    /\ (/\ last.op = "entrada"
        /\ last.res \in {"ok", "fallo"}
        /\ FilasDe(pre.stock_mp, last.tipo, last.variante) = {})
           => LET n == Len(pre.stock_mp)
              IN  /\ last.res = "ok"
                  /\ Len(stock_mp) = n + 1
                  /\ SubSeq(stock_mp, 1, n) = ReadStock(pre.stock_mp)
                  /\ stock_mp[n + 1].tipo = last.tipo
                  /\ stock_mp[n + 1].variante = last.variante
                  /\ stock_mp[n + 1].stock_minimo = 0
                  /\ stock_mp[n + 1].stock_actual = last.cant
    /\ (/\ last.op = "debito"
        /\ FilasDe(pre.stock_mp, LineaDebitada.tipo, LineaDebitada.variante) = {})
           => /\ last.res = "fallo"
              /\ stock_mp = pre.stock_mp

\* an entry of a material that had no stock line
C32_Witness ==
    /\ last.op = "entrada"
    /\ last.res = "ok"
    /\ FilasDe(pre.stock_mp, last.tipo, last.variante) = {}

\* a debit of a material whose stock line was dropped under the run
C32_WitnessDebito ==
    /\ last.op = "debito"
    /\ FilasDe(pre.stock_mp, LineaDebitada.tipo, LineaDebitada.variante) = {}
    /\ LineaDebitada.cant > 0

\* ---------------------------------------------------------------- C33
\* the recipe of the production page, written out
RecetaDeclarada ==
    IF last.auto /\ last.tipo = "pincel normal"
    THEN << [tipo |-> "Mango", variante |-> last.variante, cant |-> last.cant],
            [tipo |-> "Chapita", variante |-> <<last.variante[1]>>, cant |-> last.cant] >>
    ELSE IF last.auto /\ last.tipo = "pinceleta"
    THEN << [tipo |-> "Manguito pinceleta", variante |-> <<last.variante[1]>>,
             cant |-> last.cant],
            [tipo |-> "Chapita pinceleta", variante |-> <<last.variante[2]>>,
             cant |-> last.cant],
            [tipo |-> "Cerda pinceleta", variante |-> <<"estándar">>, cant |-> last.cant] >>
    ELSE <<>>

\* the slots of the form that hold a line, in the order of the form
ManualesDeclarados ==
    LET usados == Ascendente({k \in 1..Len(last.manual) : last.manual[k].cant > 0})
    IN  [j \in 1..Len(usados) |-> last.manual[usados[j]]]

\* the EXIT record of a consumption line
Salida(it, t) ==
    [fecha |-> t, tipo_movimiento |-> "SALIDA", tipo |-> it.tipo,
     variante |-> it.variante, cantidad |-> it.cant, proveedor |-> ""]

\* C33: a production debits the recipe lines first and the manual lines after
\* them, each group in the order declared; the EXIT records are appended in
\* that order, one right after each debit: when the pass stops at a debit that
\* fails, the lines before it are debited and recorded and no other.
C33_OrdenDeDebito ==
    (last.op = "produccion" /\ last.insuf = <<>>)
        => LET hechas == SubSeq(last.items, 1, last.hechos)
               antes == ReadMov(pre.movimientos)
           IN  /\ last.items = RecetaDeclarada \o ManualesDeclarados
               /\ Len(movimientos) = Len(antes) + last.hechos
               /\ \A k \in 1..last.hechos :
                      LET r == movimientos[Len(antes) + k]
                      IN  /\ r.tipo_movimiento = "SALIDA"
                          /\ r.tipo = last.items[k].tipo
                          /\ r.variante = last.items[k].variante
                          /\ r.cantidad = last.items[k].cant
               /\ \A m \in MaterialesDe(pre.stock_mp) :
                      TotalStock(stock_mp, m[1], m[2])
                          = TotalStock(pre.stock_mp, m[1], m[2])
                                - SumaLineas(hechas, m[1], m[2])

\* a production with a recipe and two different manual lines, all debited
C33_Witness ==
    /\ last.op = "produccion"
    /\ last.res = "ok"
    /\ Len(RecetaDeclarada) = 2
    /\ Len(ManualesDeclarados) = 2
    /\ ManualesDeclarados[1] # ManualesDeclarados[2]
    /\ last.hechos = 4

\* a pass that stopped at a manual line after the recipe lines were debited
C33_WitnessCorte ==
    /\ last.op = "produccion"
    /\ last.res = "fallo_descuento"
    /\ last.hechos >= 2
    /\ last.hechos < Len(last.items)

\* ---------------------------------------------------------------- C34
\* the quantities of the movement records of a kind and a material, added up
SumaMovimientos(file, tipo_mov, tipo, variante) ==
    LET mov == ReadMov(file)
    IN  SumaDe([i \in 1..Len(mov) |-> mov[i].cantidad],
               {i \in 1..Len(mov) : /\ mov[i].tipo_movimiento = tipo_mov
                                    /\ mov[i].tipo = tipo
                                    /\ mov[i].variante = variante})

\* C34: with one writer, after every entry, adjustment and production each
\* stock line holds its initial quantity plus the quantities of its ENTRADA
\* and AJUSTE records minus those of its SALIDA records.
C34_Acuerdo ==
    \A m \in MaterialesDe(stock_mp) :
        TotalStock(stock_mp, m[1], m[2])
            = TotalStock(StockInicial(build_default_catalog), m[1], m[2])
                  + SumaMovimientos(movimientos, "ENTRADA", m[1], m[2])
                  + SumaMovimientos(movimientos, "AJUSTE", m[1], m[2])
                  - SumaMovimientos(movimientos, "SALIDA", m[1], m[2])

\* a line that took an entry and then an adjustment that takes stock out
C34_Witness ==
    /\ last.op = "ajuste"
    /\ last.res = "ok"
    /\ last.cant < 0
    /\ SumaMovimientos(movimientos, "ENTRADA", last.tipo, last.variante) > 0
    /\ SumaMovimientos(movimientos, "SALIDA", last.tipo, last.variante) > 0

\* a production whose debit pass stopped after it debited a line
C34_WitnessCorte ==
    /\ last.op = "produccion"
    /\ last.res = "fallo_descuento"
    /\ last.hechos >= 1

\* ---------------------------------------------------------------- C35
\* C35: the two bills of materials agree: the lines the production page builds
\* with the automatic discount on are those compute_mp_needs returns for the
\* same product, variant and quantity, and the lines compute_mp_needs returns
\* for an order are those the page would build, in the same order.
C35_MismaReceta ==
    /\ (last.op = "produccion" /\ last.auto)
           => last.items = compute_mp_needs(last.tipo, last.variante, last.cant)
    /\ (last.op = "produccion" /\ last.tipo \notin {"pincel normal", "pinceleta"})
           => last.items = compute_mp_needs(last.tipo, last.variante, last.cant)
    /\ (last.op = "generar" /\ last.res # "invalida")
           => last.items = auto_items(last.tipo, last.variante, last.cant, TRUE)

\* a pinceleta made on the page with the automatic discount on
C35_Witness ==
    /\ last.op = "produccion"
    /\ last.auto
    /\ last.tipo = "pinceleta"
    /\ Len(last.items) = 3

\* a brush made for an order
C35_WitnessPedido ==
    /\ last.op = "generar"
    /\ last.tipo = "pincel normal"
    /\ Len(last.items) = 2

\* ---------------------------------------------------------------- C36
\* C36: however the reads and the rewrites of two operators' adjustments
\* interleave, no stored quantity is negative, and once every call has ended
\* each line holds its initial quantity plus the deltas of the calls that
\* reported success (those the movement log records): no delta is lost.
C36_SinPerdida ==
    /\ \A i \in 1..Len(stock_mp) : stock_mp[i].stock_actual >= 0
    /\ (\A o \in Operadores : tx[o].pc = "libre")
           => \A m \in MaterialesDe(stock_mp) :
                  TotalStock(stock_mp, m[1], m[2])
                      = TotalStock(StockInicial(build_default_catalog), m[1], m[2])
                            + SumaMovimientos(movimientos, "AJUSTE", m[1], m[2])
                            - SumaMovimientos(movimientos, "SALIDA", m[1], m[2])

\* C37: a successful dispatch leaves the raw-material stock, the movement log,
\* the production records and the catalog as they were; of the finished goods
\* it changes the quantity of one line of the order's product and variant and
\* nothing else (the lines taken as the program reads them); of the orders it changes the state of the dispatched order and
\* nothing else; the dispatch records only gain one record at the end.
C37_SoloElPedido ==
    DespachoHecho
        => /\ stock_mp = pre.stock_mp
           /\ movimientos = pre.movimientos
           /\ produccion = pre.produccion
           /\ catalogo = pre.catalogo
           /\ SubSeq(despachos, 1, Len(pre.despachos)) = pre.despachos
           /\ Len(productos) = Len(pre.productos)
           /\ \A i \in 1..Len(productos) :
                  \/ ReadProductos(productos)[i] = ReadProductos(pre.productos)[i]
                  \/ /\ i \in FilasProducto(pre.productos, last.tipo, last.variante)
                     /\ ReadProductos(productos)[i]
                            = [ReadProductos(pre.productos)[i]
                                   EXCEPT !.stock_actual = productos[i].stock_actual]
           /\ Cardinality({i \in 1..Len(productos) :
                               productos[i].stock_actual # pre.productos[i].stock_actual}) <= 1
           /\ Len(pedidos) = Len(pre.pedidos)
           /\ \A i \in 1..Len(pedidos) :
                  IF pre.pedidos[i].id = last.pid
                  THEN ReadPedidos(pedidos)[i]
                           = [ReadPedidos(pre.pedidos)[i] EXCEPT !.estado = pedidos[i].estado]
                  ELSE pedidos[i] = pre.pedidos[i]

\* a dispatch with another order on file and another finished-goods line in stock
C37_Witness ==
    /\ DespachoHecho
    /\ \E i \in 1..Len(pre.pedidos) : pre.pedidos[i].id # last.pid
    /\ \E i \in 1..Len(pre.productos) :
           /\ i \notin FilasProducto(pre.productos, last.tipo, last.variante)
           /\ pre.productos[i].stock_actual > 0

\* C38: saving the list of orders leaves every order that is not a row of the
\* edited table with its state, its due date and its note, and leaves the id,
\* the product, the variant and the quantity of every order as they were.
C38_SoloEditados ==
    last.op = "guardar_pedidos"
        => /\ Len(pedidos) = Len(pre.pedidos)
           /\ \A i \in 1..Len(pedidos) :
                  /\ pedidos[i].id = pre.pedidos[i].id
                  /\ pedidos[i].tipo_producto = pre.pedidos[i].tipo_producto
                  /\ pedidos[i].variante_producto = pre.pedidos[i].variante_producto
                  /\ pedidos[i].cantidad = pre.pedidos[i].cantidad
                  /\ (\A k \in 1..Len(last.items) : last.items[k] # pre.pedidos[i].id)
                         => /\ pedidos[i].estado = pre.pedidos[i].estado
                            /\ pedidos[i].fecha_entrega = pre.pedidos[i].fecha_entrega
                            /\ pedidos[i].nota = pre.pedidos[i].nota

\* C39: a produce of a product type that has no recipe, with no manual lines,
\* goes through: the stock table and the movement log stay as they were, the
\* production file gains one record of the produced quantity, and the
\* finished-goods line of the product goes up by that quantity (a line that
\* existed is the one credited; a new one holds the quantity when none did).
C39_SinReceta ==
    (/\ EsProduce
     /\ last.tipo \notin {"pincel normal", "pinceleta"}
     /\ last.items = <<>>
     /\ last.res # "invalida")
        => /\ last.res = "ok"
           /\ stock_mp = pre.stock_mp
           /\ movimientos = pre.movimientos
           /\ Len(produccion) = Len(pre.produccion) + 1
           /\ SubSeq(produccion, 1, Len(pre.produccion)) = pre.produccion
           /\ produccion[Len(produccion)].cantidad = last.cant
           /\ produccion[Len(produccion)].tipo_producto = last.tipo
           /\ LET f == FilasProducto(pre.productos, last.tipo, last.variante)
              IN  IF f = {}
                  THEN /\ Len(productos) = Len(pre.productos) + 1
                       /\ productos[Len(productos)].tipo_producto = last.tipo
                       /\ productos[Len(productos)].stock_actual = last.cant
                  ELSE /\ Len(productos) = Len(pre.productos)
                       /\ \E i \in f : productos[i].stock_actual
                                            = pre.productos[i].stock_actual + last.cant

====
